---------------------------- MODULE Spec2Model ----------------------------
(***************************************************************************)
(* Model of the NSE trading calendar, the expiry calculator, the option    *)
(* symbol parser and the timestamp conversion of marvelquant_data          *)
(* (utils/nse_calendar.py, utils/expiry_calculator.py,                     *)
(* utils/contract_generators.py, utils/timestamp_conversion.py).           *)
(*                                                                         *)
(* A date is modelled by its proleptic Gregorian ordinal, the number that  *)
(* datetime.date.toordinal() returns; date +/- timedelta(days=n) is        *)
(* integer addition on it and date comparison is integer comparison.       *)
(* The functions of the two modules are pure; the state machine draws      *)
(* their arguments from bounded sets and records the call, its return      *)
(* value and whether it raised.                                            *)
(***************************************************************************)
EXTENDS Integers, Sequences, FiniteSets

VARIABLES
    pc,      \* name of the function whose call completed last ("idle" at start)
    args,    \* the arguments of that call, a tuple of integers
    ret,     \* the value the call returned
    raised,  \* TRUE iff the call ended by raising an exception
    dte,     \* classify_expiry_bucket's local dte (0 outside that function)
    tz,      \* the host's local time zone: its standard offset from UTC
    frame    \* the local variables of a call that is inside a loop (<<>> otherwise)

vars == <<pc, args, ret, raised, dte, tz, frame>>

---------------------------------------------------------------------------
(* Bounds of the model.                                                    *)

\* years modelled before the first and after the last holiday table
YearsBefore == 1
YearsAfter == 1
\* longest interval (in calendar days) handed to trading_days_between
MaxSpan == 48
\* how many days the start of an interval may lie after its end
MaxBack == 3
\* the one-day steps after which a walk over non-trading days is cut off
MaxWalk == 6

\* the years of the first and the last holiday table
FirstTableYear == 2018
LastTableYear == 2024

Years == (FirstTableYear - YearsBefore)..(LastTableYear + YearsAfter)
Months == 1..12

---------------------------------------------------------------------------
(* datetime.date and calendar.monthrange, as the standard library computes *)
(* them.                                                                   *)

IsLeap(year) ==
    year % 4 = 0 /\ (year % 100 # 0 \/ year % 400 = 0)

DaysInMonth(year, month) ==
    IF month = 2 THEN (IF IsLeap(year) THEN 29 ELSE 28)
    ELSE IF month \in {4, 6, 9, 11} THEN 30 ELSE 31

\* calendar.monthrange(year, month)[1]
MonthRange(year, month) == DaysInMonth(year, month)

DaysBeforeYear(year) ==
    LET y == year - 1
    IN  y * 365 + (y \div 4) - (y \div 100) + (y \div 400)

DaysBeforeMonthTable ==
    <<0, 31, 59, 90, 120, 151, 181, 212, 243, 273, 304, 334>>

DaysBeforeMonth(year, month) ==
    DaysBeforeMonthTable[month] + (IF month > 2 /\ IsLeap(year) THEN 1 ELSE 0)

\* date(year, month, day)
Date(year, month, day) ==
    DaysBeforeYear(year) + DaysBeforeMonth(year, month) + day

\* date.fromordinal(n) as <<year, month, day>>
Ord2Ymd(ord) ==
    LET n0   == ord - 1
        n400 == n0 \div 146097
        r400 == n0 % 146097
        n100 == r400 \div 36524
        r100 == r400 % 36524
        n4   == r100 \div 1461
        r4   == r100 % 1461
        n1   == r4 \div 365
        n    == r4 % 365
        year == n400 * 400 + 1 + n100 * 100 + n4 * 4 + n1
        leap == n1 = 3 /\ (n4 # 24 \/ n100 = 3)
        m0   == (n + 50) \div 32
        p0   == DaysBeforeMonthTable[m0] + (IF m0 > 2 /\ leap THEN 1 ELSE 0)
        month == IF p0 > n THEN m0 - 1 ELSE m0
        isFeb == month = 2 /\ leap
        mdays == IF month = 2 THEN 28
                 ELSE IF month \in {4, 6, 9, 11} THEN 30 ELSE 31
        preceding == IF p0 > n
                     THEN p0 - (mdays + (IF isFeb THEN 1 ELSE 0))
                     ELSE p0
    IN  IF n1 = 4 \/ n100 = 4
        THEN <<year - 1, 12, 31>>
        ELSE <<year, month, n - preceding + 1>>

YearOf(dt) == Ord2Ymd(dt)[1]
MonthOf(dt) == Ord2Ymd(dt)[2]
DayOf(dt) == Ord2Ymd(dt)[3]

\* date.weekday(): Monday = 0 ... Sunday = 6
Weekday(dt) == (dt + 6) % 7

---------------------------------------------------------------------------
(* NSEHolidayCalendar: the holiday tables.                                 *)

HOLIDAYS_2018 ==
    { Date(2018, 1, 26), Date(2018, 3, 2), Date(2018, 3, 30),
      Date(2018, 4, 2), Date(2018, 5, 1), Date(2018, 8, 15),
      Date(2018, 8, 22), Date(2018, 9, 13), Date(2018, 10, 2),
      Date(2018, 10, 18), Date(2018, 11, 7), Date(2018, 11, 8),
      Date(2018, 11, 23), Date(2018, 12, 25) }

HOLIDAYS_2019 ==
    { Date(2019, 1, 26), Date(2019, 3, 4), Date(2019, 3, 21),
      Date(2019, 4, 17), Date(2019, 4, 19), Date(2019, 5, 1),
      Date(2019, 6, 5), Date(2019, 8, 12), Date(2019, 8, 15),
      Date(2019, 9, 2), Date(2019, 9, 10), Date(2019, 10, 2),
      Date(2019, 10, 8), Date(2019, 10, 28), Date(2019, 11, 12),
      Date(2019, 12, 25) }

HOLIDAYS_2020 ==
    { Date(2020, 1, 26), Date(2020, 2, 21), Date(2020, 3, 10),
      Date(2020, 4, 2), Date(2020, 4, 6), Date(2020, 4, 10),
      Date(2020, 5, 1), Date(2020, 5, 25), Date(2020, 8, 1),
      Date(2020, 8, 15), Date(2020, 10, 2), Date(2020, 10, 25),
      Date(2020, 11, 14), Date(2020, 11, 16), Date(2020, 11, 30),
      Date(2020, 12, 25) }

HOLIDAYS_2021 ==
    { Date(2021, 1, 26), Date(2021, 3, 11), Date(2021, 3, 29),
      Date(2021, 4, 2), Date(2021, 4, 21), Date(2021, 5, 13),
      Date(2021, 7, 21), Date(2021, 8, 19), Date(2021, 9, 10),
      Date(2021, 10, 15), Date(2021, 11, 4), Date(2021, 11, 5),
      Date(2021, 11, 19) }

HOLIDAYS_2022 ==
    { Date(2022, 1, 26), Date(2022, 3, 1), Date(2022, 3, 18),
      Date(2022, 4, 14), Date(2022, 4, 15), Date(2022, 5, 3),
      Date(2022, 7, 10), Date(2022, 8, 9), Date(2022, 8, 15),
      Date(2022, 8, 31), Date(2022, 10, 5), Date(2022, 10, 24),
      Date(2022, 10, 26), Date(2022, 11, 8) }

HOLIDAYS_2023 ==
    { Date(2023, 1, 26), Date(2023, 3, 7), Date(2023, 3, 30),
      Date(2023, 4, 4), Date(2023, 4, 7), Date(2023, 4, 14),
      Date(2023, 4, 22), Date(2023, 5, 1), Date(2023, 6, 29),
      Date(2023, 8, 15), Date(2023, 9, 19), Date(2023, 10, 2),
      Date(2023, 10, 24), Date(2023, 11, 12), Date(2023, 11, 13),
      Date(2023, 11, 27), Date(2023, 12, 25) }

HOLIDAYS_2024 ==
    { Date(2024, 1, 26), Date(2024, 3, 8), Date(2024, 3, 25),
      Date(2024, 3, 29), Date(2024, 4, 11), Date(2024, 4, 17),
      Date(2024, 5, 1), Date(2024, 6, 17), Date(2024, 7, 17),
      Date(2024, 8, 15), Date(2024, 10, 2), Date(2024, 11, 1),
      Date(2024, 11, 15), Date(2024, 12, 25) }

HOLIDAYS ==
    HOLIDAYS_2018 \cup HOLIDAYS_2019 \cup HOLIDAYS_2020 \cup
    HOLIDAYS_2021 \cup HOLIDAYS_2022 \cup HOLIDAYS_2023 \cup HOLIDAYS_2024

WEEKEND_DAYS == {5, 6}


---------------------------------------------------------------------------
(* NSEHolidayCalendar: the methods.                                        *)

\* is_trading_day with the holiday test left out
IsTradingDayWeekendOnly(dt) ==
    Weekday(dt) \notin WEEKEND_DAYS

\* is_trading_day taking 26 January of every year for a holiday
IsTradingDayRepublicDayEveryYear(dt) ==
    /\ Weekday(dt) \notin WEEKEND_DAYS
    /\ dt \notin HOLIDAYS
    /\ ~(MonthOf(dt) = 1 /\ DayOf(dt) = 26)

\* is_trading_day with no trading in a year that has no holiday table
IsTradingDayInTableYearsOnly(dt) ==
    /\ Weekday(dt) \notin WEEKEND_DAYS
    /\ dt \notin HOLIDAYS
    /\ YearOf(dt) \in FirstTableYear..LastTableYear

\* is_trading_day(dt)
IsTradingDay(dt) ==
    /\ Weekday(dt) \notin WEEKEND_DAYS
    /\ dt \notin HOLIDAYS

\* the loop of trading_days_between running while current <= end
RECURSIVE TdbLoopEndInclusive(_, _, _)
TdbLoopEndInclusive(current, end, count) ==
    IF current <= end
    THEN TdbLoopEndInclusive(current + 1, end,
                 IF IsTradingDay(current) THEN count + 1 ELSE count)
    ELSE count

\* the while loop of trading_days_between
RECURSIVE TdbLoop(_, _, _)
TdbLoop(current, end, count) ==
    IF current < end
    THEN TdbLoop(current + 1, end,
                 IF IsTradingDay(current) THEN count + 1 ELSE count)
    ELSE count

\* trading_days_between(start, end)
TradingDaysBetween(start, end) == TdbLoop(start, end, 0)

\* the while loop of get_previous_trading_day
RECURSIVE PrevLoop(_)
PrevLoop(current) ==
    IF ~IsTradingDay(current) THEN PrevLoop(current - 1) ELSE current

\* get_previous_trading_day starting its walk at dt itself
GetPreviousTradingDayFromSelf(dt) == PrevLoop(dt)

\* get_previous_trading_day(dt)
GetPreviousTradingDay(dt) == PrevLoop(dt - 1)

\* the while loop of get_next_trading_day
RECURSIVE NextLoop(_)
NextLoop(current) ==
    IF ~IsTradingDay(current) THEN NextLoop(current + 1) ELSE current

\* get_next_trading_day(dt)
GetNextTradingDay(dt) == NextLoop(dt + 1)

---------------------------------------------------------------------------
(* expiry_calculator.py                                                    *)

\* LastThursday with a remainder that keeps the sign of the dividend
LastThursdayNoWrap(year, month) ==
    LET last_day == Date(year, month, MonthRange(year, month))
    IN  last_day - (Weekday(last_day) - 3)

\* LastThursday reading weekday 3 with Sunday = 0 numbering
LastThursdaySundayZero(year, month) ==
    LET last_day == Date(year, month, MonthRange(year, month))
    IN  last_day - ((Weekday(last_day) - 2) % 7)

\* the last Thursday of the month, before the holiday adjustment
LastThursday(year, month) ==
    LET last_day_num == MonthRange(year, month)
        last_day == Date(year, month, last_day_num)
        days_since_thursday == (Weekday(last_day) - 3) % 7
    IN  last_day - days_since_thursday

\* the holiday adjustment walking forward instead of backward
RECURSIVE MonthlyWalkForward(_)
MonthlyWalkForward(last_thursday) ==
    IF ~IsTradingDay(last_thursday)
    THEN MonthlyWalkForward(last_thursday + 1)
    ELSE last_thursday

\* the holiday walk-back loop of get_nse_monthly_expiry
RECURSIVE MonthlyWalkBack(_)
MonthlyWalkBack(last_thursday) ==
    IF ~IsTradingDay(last_thursday)
    THEN MonthlyWalkBack(last_thursday - 1)
    ELSE last_thursday

\* get_nse_monthly_expiry(year, month, calendar)
GetNseMonthlyExpiry(year, month) ==
    MonthlyWalkBack(LastThursday(year, month))

\* the if/elif chain with strict comparisons
BucketOfStrict(d) ==
    IF d < 7 THEN "CW"
    ELSE IF d < 14 THEN "NW"
    ELSE IF d < 30 THEN "CM"
    ELSE "NM"

\* the if/elif chain of classify_expiry_bucket
BucketOf(d) ==
    IF d <= 7 THEN "CW"
    ELSE IF d <= 14 THEN "NW"
    ELSE IF d <= 30 THEN "CM"
    ELSE "NM"

\* the dte counted from the day after current_date
ClassifyDteAfterCurrent(option_expiry, current_date) ==
    TradingDaysBetween(current_date + 1, option_expiry)

\* the dte that classify_expiry_bucket computes
ClassifyDte(option_expiry, current_date) ==
    TradingDaysBetween(current_date, option_expiry)

\* classify_expiry_bucket(option_expiry, current_date, calendar)
ClassifyExpiryBucket(option_expiry, current_date) ==
    BucketOf(ClassifyDte(option_expiry, current_date))

\* get_all_monthly_expiries(year, calendar)
GetAllMonthlyExpiries(year) ==
    [month \in 1..12 |-> GetNseMonthlyExpiry(year, month)]

\* the holiday walk-back loop of get_nse_weekly_expiries
RECURSIVE WeeklyWalkBack(_)
WeeklyWalkBack(expiry) ==
    IF ~IsTradingDay(expiry) THEN WeeklyWalkBack(expiry - 1) ELSE expiry

\* the day loop of get_nse_weekly_expiries stopping before last_day
RECURSIVE WeeklyLoopBeforeLastDay(_, _, _)
WeeklyLoopBeforeLastDay(current, last_day, expiries) ==
    IF current < last_day
    THEN WeeklyLoopBeforeLastDay(current + 1, last_day,
             IF Weekday(current) = 3
             THEN Append(expiries, WeeklyWalkBack(current))
             ELSE expiries)
    ELSE expiries

\* the day loop of get_nse_weekly_expiries
RECURSIVE WeeklyLoop(_, _, _)
WeeklyLoop(current, last_day, expiries) ==
    IF current <= last_day
    THEN WeeklyLoop(current + 1, last_day,
             IF Weekday(current) = 3
             THEN Append(expiries, WeeklyWalkBack(current))
             ELSE expiries)
    ELSE expiries

\* get_nse_weekly_expiries(year, month, calendar)
GetNseWeeklyExpiries(year, month) ==
    LET last_day_num == MonthRange(year, month)
        first_day == Date(year, month, 1)
        last_day == Date(year, month, last_day_num)
    IN  WeeklyLoop(first_day, last_day, <<>>)

\* is_expiry_day(dt, calendar)
IsExpiryDay(dt) ==
    LET monthly_expiry == GetNseMonthlyExpiry(Ord2Ymd(dt)[1], Ord2Ymd(dt)[2])
    IN  dt = monthly_expiry

---------------------------------------------------------------------------
(* Python strings, slices, float() and datetime.strptime, as far as        *)
(* parse_nse_option_symbol uses them. A string is a sequence of            *)
(* one-character strings.                                                  *)

DigitChars == <<"0", "1", "2", "3", "4", "5", "6", "7", "8", "9">>
UpperChars ==
    <<"A", "B", "C", "D", "E", "F", "G", "H", "I", "J", "K", "L", "M",
      "N", "O", "P", "Q", "R", "S", "T", "U", "V", "W", "X", "Y", "Z">>
LowerChars ==
    <<"a", "b", "c", "d", "e", "f", "g", "h", "i", "j", "k", "l", "m",
      "n", "o", "p", "q", "r", "s", "t", "u", "v", "w", "x", "y", "z">>

IsDigit(c) == \E i \in 1..10 : DigitChars[i] = c
DigitValue(c) == (CHOOSE i \in 1..10 : DigitChars[i] = c) - 1

\* str.lower() of one character
ToLower(c) ==
    IF \E i \in 1..26 : UpperChars[i] = c
    THEN LowerChars[CHOOSE i \in 1..26 : UpperChars[i] = c]
    ELSE c

LowerStr(str) == [i \in 1..Len(str) |-> ToLower(str[i])]

\* a slice bound as Python clamps it: negative bounds count from the end
SliceIndex(len, i) ==
    IF i < 0
    THEN (IF len + i < 0 THEN 0 ELSE len + i)
    ELSE (IF i > len THEN len ELSE i)

\* str[lo:hi]
Slice(str, lo, hi) ==
    LET a == SliceIndex(Len(str), lo)
        b == SliceIndex(Len(str), hi)
    IN  IF a >= b THEN <<>> ELSE SubSeq(str, a + 1, b)

\* str[lo:]
SliceFrom(str, lo) ==
    LET a == SliceIndex(Len(str), lo)
    IN  SubSeq(str, a + 1, Len(str))

\* str[:hi]
SliceTo(str, hi) == SubSeq(str, 1, SliceIndex(Len(str), hi))

\* str.strip() for the blank
RECURSIVE LStrip(_)
LStrip(str) ==
    IF str # <<>> /\ Head(str) = " " THEN LStrip(Tail(str)) ELSE str

RECURSIVE RStrip(_)
RStrip(str) ==
    IF str # <<>> /\ str[Len(str)] = " "
    THEN RStrip(SubSeq(str, 1, Len(str) - 1))
    ELSE str

Strip(str) == RStrip(LStrip(str))

\* the position after the digit part (digits, single underscores between
\* them) that starts at position i; i itself when none starts there
RECURSIVE ScanDigits(_, _)
ScanDigits(str, i) ==
    IF i <= Len(str) /\ IsDigit(str[i])
    THEN IF i + 1 <= Len(str) /\ IsDigit(str[i + 1])
         THEN ScanDigits(str, i + 1)
         ELSE IF i + 2 <= Len(str) /\ str[i + 1] = "_" /\ IsDigit(str[i + 2])
              THEN ScanDigits(str, i + 2)
              ELSE i + 1
    ELSE i

\* the number written by the digits of str[from..to-1], underscores skipped
RECURSIVE DigitsValue(_, _, _, _)
DigitsValue(str, from, to, acc) ==
    IF from >= to THEN acc
    ELSE IF IsDigit(str[from])
         THEN DigitsValue(str, from + 1, to, acc * 10 + DigitValue(str[from]))
         ELSE DigitsValue(str, from + 1, to, acc)

\* how many digits str[from..to-1] holds
DigitCount(str, from, to) ==
    Cardinality({i \in from..(to - 1) : IsDigit(str[i])})

\* mant * 10^exp with the trailing zeros of mant moved into exp
RECURSIVE Normalise(_, _)
Normalise(mant, exp) ==
    IF mant = 0 THEN <<0, 0>>
    ELSE IF mant % 10 = 0 THEN Normalise(mant \div 10, exp + 1)
    ELSE <<mant, exp>>

RECURSIVE NumDigits(_)
NumDigits(n) == IF n < 10 THEN 1 ELSE 1 + NumDigits(n \div 10)

RECURSIVE Pow10(_)
Pow10(k) == IF k <= 0 THEN 1 ELSE 10 * Pow10(k - 1)

\* mant * 10^exp rounds to a float beyond the largest finite one
\* (1.7976931348623157e308), for a normalised mant of at most 5 digits
Overflows(mant, exp) ==
    LET top == exp + NumDigits(mant) - 1
    IN  /\ mant # 0
        /\ \/ top > 308
           \/ top = 308 /\ mant * Pow10(5 - NumDigits(mant)) >= 17977

\* float(str) of a stripped str, last step: the digits start at p1, the
\* integer digits end before a, the fraction digits before b
FloatOfParts(str, p1, a, b) ==
    LET n    == Len(str)
        neg  == n >= 1 /\ str[1] = "-"
        dot  == a <= n /\ str[a] = "."
        b0   == IF dot THEN a + 1 ELSE a
        hasE == b <= n /\ str[b] \in {"e", "E"}
        c0   == b + 1
        esgn == hasE /\ c0 <= n /\ str[c0] \in {"+", "-"}
        eneg == esgn /\ str[c0] = "-"
        c1   == IF esgn THEN c0 + 1 ELSE c0
        c    == IF hasE THEN ScanDigits(str, c1) ELSE b
        wellFormed ==
            /\ (a > p1 \/ b > b0)
            /\ (hasE => c > c1)
            /\ c = n + 1
        mant == DigitsValue(str, p1, b, 0)
        e    == IF hasE THEN DigitsValue(str, c1, c, 0) ELSE 0
        exp  == (IF eneg THEN 0 - e ELSE e) - DigitCount(str, b0, b)
        norm == Normalise(mant, exp)
    IN  IF ~wellFormed
        THEN [ok |-> FALSE, kind |-> "ValueError", neg |-> FALSE,
              mant |-> 0, exp |-> 0]
        ELSE IF Overflows(norm[1], norm[2])
        THEN [ok |-> TRUE, kind |-> "inf", neg |-> neg, mant |-> 0, exp |-> 0]
        ELSE [ok |-> TRUE, kind |-> "num", neg |-> neg,
              mant |-> norm[1], exp |-> norm[2]]

\* float(str) of a stripped str written in digits: the integer digits are
\* scanned, then the fraction digits, each once
FloatOfDigits(str, p1) ==
    CHOOSE r \in
        UNION { { FloatOfParts(str, p1, a, b) :
                    b \in { IF a <= Len(str) /\ str[a] = "."
                            THEN ScanDigits(str, a + 1) ELSE a } } :
                a \in {ScanDigits(str, p1)} } : TRUE

\* float(str) of a stripped str
FloatOfStripped(str) ==
    LET n    == Len(str)
        sgn  == n >= 1 /\ str[1] \in {"+", "-"}
        neg  == n >= 1 /\ str[1] = "-"
        p1   == IF sgn THEN 2 ELSE 1
        word == LowerStr(SubSeq(str, p1, n))
    IN  IF word = <<"n", "a", "n">>
        THEN [ok |-> TRUE, kind |-> "nan", neg |-> neg, mant |-> 0, exp |-> 0]
        ELSE IF word = <<"i", "n", "f">>
                \/ word = <<"i", "n", "f", "i", "n", "i", "t", "y">>
        THEN [ok |-> TRUE, kind |-> "inf", neg |-> neg, mant |-> 0, exp |-> 0]
        ELSE CHOOSE r \in { FloatOfDigits(str, p) : p \in {p1} } : TRUE

\* float(str): [ok |-> FALSE] where Python raises ValueError, otherwise the
\* value: "nan", "inf", or the decimal number mant * 10^exp
PyFloat(str0) ==
    CHOOSE r \in { FloatOfStripped(str) : str \in {Strip(str0)} } : TRUE

\* the abbreviated month names that %b matches, unless case
MonthAbbrs ==
    << <<"j", "a", "n">>, <<"f", "e", "b">>, <<"m", "a", "r">>,
       <<"a", "p", "r">>, <<"m", "a", "y">>, <<"j", "u", "n">>,
       <<"j", "u", "l">>, <<"a", "u", "g">>, <<"s", "e", "p">>,
       <<"o", "c", "t">>, <<"n", "o", "v">>, <<"d", "e", "c">> >>

\* what %d matches: 3[0-1] | [1-2]\d | 0[1-9] | [1-9] | " "[1-9]
MatchesDay(str) ==
    \/ /\ Len(str) = 2
       /\ \/ str[1] = "3" /\ str[2] \in {"0", "1"}
          \/ str[1] \in {"1", "2"} /\ IsDigit(str[2])
          \/ str[1] \in {"0", " "} /\ IsDigit(str[2]) /\ str[2] # "0"
    \/ /\ Len(str) = 1
       /\ IsDigit(str[1]) /\ str[1] # "0"

\* datetime.strptime(str, "%d%b%y").date(): [ok |-> FALSE] where it raises
\* ValueError, otherwise the date
Strptime(str) ==
    LET n   == Len(str)
        dd  == SubSeq(str, 1, n - 5)
        mmm == LowerStr(SubSeq(str, n - 4, n - 2))
        yy  == SubSeq(str, n - 1, n)
        matches ==
            /\ n \in {6, 7}
            /\ MatchesDay(dd)
            /\ \E k \in 1..12 : MonthAbbrs[k] = mmm
            /\ IsDigit(yy[1]) /\ IsDigit(yy[2])
        day   == DigitsValue(dd, 1, Len(dd) + 1, 0)
        month == CHOOSE k \in 1..12 : MonthAbbrs[k] = mmm
        y2    == DigitsValue(yy, 1, 3, 0)
        year  == IF y2 <= 68 THEN 2000 + y2 ELSE 1900 + y2
    IN  IF matches /\ day <= DaysInMonth(year, month)
        THEN [ok |-> TRUE, date |-> Date(year, month, day)]
        ELSE [ok |-> FALSE, date |-> 0]

---------------------------------------------------------------------------
(* contract_generators.py: parse_nse_option_symbol                         *)

\* parse_nse_option_symbol(symbol): the dictionary it returns, or the
\* exception it ends with
ParseNseOptionSymbol(symbol) ==
    LET option_type_code == SliceFrom(symbol, -2)
        option_type == IF option_type_code = <<"C", "E">>
                       THEN "CALL" ELSE "PUT"
        symbol_without_type == SliceTo(symbol, -2)
        strike == PyFloat(SliceFrom(symbol_without_type, -5))
        date_str == Slice(symbol_without_type, -12, -5)
        expiry == Strptime(date_str)
        underlying == SliceTo(symbol_without_type, -12)
    IN  IF ~strike.ok THEN [raised |-> TRUE, value |-> "ValueError"]
        ELSE IF ~expiry.ok THEN [raised |-> TRUE, value |-> "ValueError"]
        ELSE [raised |-> FALSE,
              value |-> [underlying |-> underlying,
                         expiry |-> expiry.date,
                         strike |-> [kind |-> strike.kind, neg |-> strike.neg,
                                     mant |-> strike.mant, exp |-> strike.exp],
                         option_type |-> option_type]]

---------------------------------------------------------------------------
(* timestamp_conversion.py.  A count of nanoseconds is kept as the whole   *)
(* seconds in it and the nanoseconds above them: [sec, nano] stands for    *)
(* sec * 10^9 + nano with 0 <= nano < 10^9.                                *)

NanosPerSecond == 1000000000

Ns(sec, nano) == [sec |-> sec, nano |-> nano]

\* a <= b on counts of nanoseconds
NsLeq(a, b) == a.sec < b.sec \/ (a.sec = b.sec /\ a.nano <= b.nano)

\* len(str(ts)); the sign of a negative count is one more character
NsStrLen(ts) ==
    IF ts.sec > 0 THEN NumDigits(ts.sec) + 9
    ELSE IF ts.sec = 0 THEN NumDigits(ts.nano)
    ELSE IF ts.nano = 0 THEN 1 + NumDigits(-ts.sec) + 9
    ELSE IF ts.sec = -1 THEN 1 + NumDigits(NanosPerSecond - ts.nano)
    ELSE 1 + NumDigits(-ts.sec - 1) + 9

\* IST_OFFSET = timedelta(hours=5, minutes=30), in seconds
IST_OFFSET == 5 * 3600 + 30 * 60

\* datetime(...) accepting any day up to 31 in every month
DatetimeAnyDayUpTo31(year, month, day, hours, minutes, seconds) ==
    IF /\ year \in 1..9999
       /\ month \in 1..12
       /\ day \in 1..31
       /\ hours \in 0..23
       /\ minutes \in 0..59
       /\ seconds \in 0..59
    THEN [ok |-> TRUE,
          naive |-> (Date(year, month, day) - Date(1970, 1, 1)) * 86400
                    + hours * 3600 + minutes * 60 + seconds]
    ELSE [ok |-> FALSE, naive |-> 0]

\* datetime(year, month, day, hours, minutes, seconds): a naive date-time,
\* kept as the seconds of civil time since 1970-01-01 00:00:00; ValueError
\* when a component is out of range
Datetime(year, month, day, hours, minutes, seconds) ==
    IF /\ year \in 1..9999
       /\ month \in 1..12
       /\ day \in 1..DaysInMonth(year, month)
       /\ hours \in 0..23
       /\ minutes \in 0..59
       /\ seconds \in 0..59
    THEN [ok |-> TRUE,
          naive |-> (Date(year, month, day) - Date(1970, 1, 1)) * 86400
                    + hours * 3600 + minutes * 60 + seconds]
    ELSE [ok |-> FALSE, naive |-> 0]

\* MUTANT of UtcDt: the offset is added
UtcDtAddOffset(ist_dt) == ist_dt + IST_OFFSET

\* utc_dt = ist_dt - IST_OFFSET: still a naive date-time
UtcDt(ist_dt) == ist_dt - IST_OFFSET

\* the standard offset of US Eastern time (TZ=America/New_York), the one
\* host zone of the model that observes daylight time
US_EASTERN == -(5 * 3600)

\* the first Sunday on or after the date
SundayOnOrAfter(dt) == dt + ((6 - Weekday(dt)) % 7)

\* the last Sunday on or before the date
SundayOnOrBefore(dt) == dt - ((Weekday(dt) + 1) % 7)

\* the instant US Eastern clocks go forward in the year, in seconds of UTC
\* since 1970: 02:00 standard time on the second Sunday of March (since
\* 2007; on the last Sunday of April in the years around 1969)
EasternDaylightStart(year) ==
    LET sunday == IF year >= 2007 THEN SundayOnOrAfter(Date(year, 3, 8))
                  ELSE SundayOnOrBefore(Date(year, 4, 30))
    IN  (sunday - Date(1970, 1, 1)) * 86400 + 2 * 3600 - US_EASTERN

\* the instant they go back: 02:00 daylight time on the first Sunday of
\* November (on the last Sunday of October in the years around 1969)
EasternDaylightEnd(year) ==
    LET sunday == IF year >= 2007 THEN SundayOnOrAfter(Date(year, 11, 1))
                  ELSE SundayOnOrBefore(Date(year, 10, 31))
    IN  (sunday - Date(1970, 1, 1)) * 86400 + 2 * 3600 - (US_EASTERN + 3600)

\* the host's offset from UTC at the instant u
UtcOffset(host, u) ==
    IF host # US_EASTERN THEN host
    ELSE IF \E year \in { Ord2Ymd(u \div 86400 + Date(1970, 1, 1))[1] } :
                EasternDaylightStart(year) <= u /\ u < EasternDaylightEnd(year)
         THEN host + 3600
         ELSE host

\* local(u) of datetime._mktime: the fields of time.localtime(u) as seconds
\* of civil time
LocalTime(host, u) == u + UtcOffset(host, u)

\* the end of datetime._mktime with fold = 0, once both offsets a and b
\* and the two local times are known
MktimeOfOffsets(t, a, b, t1, t2) ==
    LET u1 == t - a
        u2 == t - b
    IN  IF t1 = t /\ a = b THEN u1
        ELSE IF t2 = t THEN u2
        ELSE IF t1 = t THEN u1
        ELSE IF u1 >= u2 THEN u1 ELSE u2

\* datetime._mktime from the second offset b on
MktimeOfSecondOffset(t, host, a, t1, b) ==
    CHOOSE u \in { MktimeOfOffsets(t, a, b, t1, t2) :
                     t2 \in { LocalTime(host, t - b) } } : TRUE

\* datetime._mktime from the first candidate u1 = t - a on
MktimeOfFirstOffset(t, host, a, t1) ==
    LET max_fold_seconds == 24 * 3600
        u1 == t - a
    IN  CHOOSE u \in { MktimeOfSecondOffset(t, host, a, t1, b) :
                         b \in { IF t1 = t
                                 THEN LocalTime(host, u1 - max_fold_seconds)
                                        - (u1 - max_fold_seconds)
                                 ELSE t1 - u1 } } : TRUE

\* datetime._mktime with fold = 0: solves t = local(u) for u
Mktime(t, host) ==
    CHOOSE u \in { CHOOSE v \in { MktimeOfFirstOffset(t, host, a, t1) :
                                    t1 \in { LocalTime(host, t - a) } } : TRUE :
                   a \in { LocalTime(host, t) - t } } : TRUE

\* utc_dt.timestamp() of a naive date-time: its fields are read as local
\* time of the host
Timestamp(naive, host) == Mktime(naive, host)

\* int(timestamp_seconds * 1_000_000_000): timestamp_seconds is a whole
\* number, and the floating-point product is exact while
\* |timestamp_seconds| * 5^9 < 2^53, which covers every year before 2116
ToNanoseconds(timestamp_seconds) == Ns(timestamp_seconds, 0)

\* yyyymmdd_seconds_to_utc_ns(date_int, seconds_int) on a host whose local
\* zone is host seconds ahead of UTC
YyyymmddSecondsToUtcNs(date_int, seconds_int, host) ==
    LET year == date_int \div 10000
        month == (date_int % 10000) \div 100
        day == date_int % 100
        hours == seconds_int \div 3600
        minutes == (seconds_int % 3600) \div 60
        seconds == seconds_int % 60
        ist_dt == Datetime(year, month, day, hours, minutes, seconds)
    IN  IF ~ist_dt.ok THEN [raised |-> TRUE, value |-> "ValueError"]
        ELSE LET utc_dt == UtcDt(ist_dt.naive)
                 timestamp_seconds == Timestamp(utc_dt, host)
             IN  [raised |-> FALSE,
                  value |-> ToNanoseconds(timestamp_seconds)]

\* 2018-01-01 00:00:00 UTC and 2026-01-01 00:00:00 UTC
MIN_TIMESTAMP == Ns(1514764800, 0)
MAX_TIMESTAMP == Ns(1767225600, 0)

\* MUTANT of InRange: the two ends are left out
InRangeExclusive(first_ts) ==
    /\ NsLeq(MIN_TIMESTAMP, first_ts) /\ first_ts # MIN_TIMESTAMP
    /\ NsLeq(first_ts, MAX_TIMESTAMP) /\ first_ts # MAX_TIMESTAMP

\* MUTANT of InRange: the range is not checked
InRangeUnchecked(first_ts) == first_ts = first_ts

\* MIN_TIMESTAMP <= first_ts <= MAX_TIMESTAMP
InRange(first_ts) ==
    NsLeq(MIN_TIMESTAMP, first_ts) /\ NsLeq(first_ts, MAX_TIMESTAMP)

\* validate_timestamp_conversion(df) with the default column names, df a
\* sequence of rows
ValidateTimestampConversion(df, host) ==
    IF df = <<>> THEN [raised |-> FALSE, value |-> TRUE]
    ELSE LET first_date == df[1].trade_date
             first_time == df[1].trade_time
             first_ts == df[1].ts_event
             expected_ts == YyyymmddSecondsToUtcNs(first_date, first_time, host)
         IN  IF expected_ts.raised THEN expected_ts
             ELSE IF first_ts # expected_ts.value
                  THEN [raised |-> TRUE, value |-> "AssertionError"]
             ELSE IF ~InRange(first_ts)
                  THEN [raised |-> TRUE, value |-> "AssertionError"]
             ELSE IF NsStrLen(first_ts) # 19
                  THEN [raised |-> TRUE, value |-> "AssertionError"]
             ELSE [raised |-> FALSE, value |-> TRUE]

---------------------------------------------------------------------------
(* The symbols handed to parse_nse_option_symbol: every concatenation of   *)
(* an underlying, a date field, a strike field and a kind code below, and  *)
(* a few shorter strings.                                                  *)

\* underlyings; the first is the empty string
SymUnderlyings ==
    { <<>>,
      <<"N", "I", "F", "T", "Y">>,
      <<"B", "A", "N", "K", "N", "I", "F", "T", "Y">> }

\* date fields, well-formed and not; the last but one has 6 characters
SymDateFields ==
    { <<"2", "8", "O", "C", "T", "2", "5">>,
      <<"0", "1", "F", "E", "B", "2", "4">>,
      <<"2", "9", "F", "E", "B", "2", "4">>,
      <<"2", "9", "F", "E", "B", "2", "5">>,
      <<"3", "0", "F", "E", "B", "2", "4">>,
      <<"3", "1", "D", "E", "C", "6", "8">>,
      <<"0", "1", "J", "A", "N", "6", "9">>,
      <<"1", "5", "a", "u", "g", "9", "9">>,
      <<"0", "0", "J", "A", "N", "2", "4">>,
      <<"3", "2", "J", "A", "N", "2", "4">>,
      <<"2", "8", "X", "Y", "Z", "2", "5">>,
      <<" ", "8", "O", "C", "T", "2", "5">>,
      <<"8", "O", "C", "T", "2", "5">>,
      <<"2", " ", "O", "C", "T", "2", "5">> }

\* strike fields of 5 characters
SymStrikeFields ==
    { <<"4", "8", "0", "0", "0">>,
      <<"1", "9", "5", "0", "0">>,
      <<"0", "0", "0", "0", "0">>,
      <<"4", "8", "0", "0", "X">>,
      <<" ", "4", "8", "0", "0">>,
      <<"4", "_", "8", "0", "0">>,
      <<"4", "8", ".", "5", "0">>,
      <<"1", "e", "4", "0", "0">>,
      <<"+", "4", "8", "0", "0">>,
      <<" ", " ", "n", "a", "n">>,
      <<"4", "8", "e", "-", "1">>,
      <<"4", ".", ".", "8", "0">> }

\* kind codes
SymKinds ==
    { <<"C", "E">>,
      <<"P", "E">>,
      <<"X", "X">>,
      <<"c", "e">> }

\* strings too short to hold the fields
SymShort ==
    { <<>>,
      <<"E">>,
      <<"C", "E">>,
      <<"4", "8", "0", "0", "0", "C", "E">>,
      <<"O", "C", "T", "2", "5", "4", "8", "0", "0", "0", "C", "E">> }

Symbols ==
    { u \o d \o k \o t : u \in SymUnderlyings, d \in SymDateFields,
                         k \in SymStrikeFields, t \in SymKinds }
    \cup SymShort

---------------------------------------------------------------------------
(* The dates, times of day, hosts and frames handed to the timestamp       *)
(* functions.  The years lie on both sides of the validated range and of   *)
(* the epoch; months and days include values no calendar has.              *)

TimeYears == {1969, 2017, 2018, 2024, 2025, 2026, 2037}
TimeMonths == {1, 2, 7, 12, 13}
TimeDays == {0, 1, 2, 29, 31}
DateInts ==
    { y * 10000 + mo * 100 + d : y \in TimeYears, mo \in TimeMonths,
                                 d \in TimeDays }
SecondsInts == {-1, 0, 19799, 19800, 19801, 33300, 34500, 86399, 86400}

\* pairs of consecutive days: over a year end, over 29 February, and over
\* the two Sundays of 2024 on which US Eastern clocks change
ConsecutiveDateInts ==
    { 20231231, 20240101, 20240228, 20240229, 20240301, 20240309, 20240310,
      20240311, 20241102, 20241103, 20241104 }
\* seconds around midnight of both zones and around the clock changes as
\* they fall in Indian time
ConsecutiveSecondsInts ==
    { 0, 1, 19799, 19800, 23399, 23400, 26999, 27000, 30599, 30600, 86398,
      86399 }

\* local zones of the host, as the standard offset from UTC in seconds: UTC,
\* India, US Eastern
HostOffsets == {0, IST_OFFSET, US_EASTERN}

\* the ts_event values tried against a source row: the converted value,
\* one nanosecond more, one second less
ClaimedFor(date_int, seconds_int, host) ==
    LET e == YyyymmddSecondsToUtcNs(date_int, seconds_int, host)
    IN  IF e.raised THEN {MIN_TIMESTAMP}
        ELSE {e.value, Ns(e.value.sec, 1), Ns(e.value.sec - 1, 0)}

Row(date_int, seconds_int, ts) ==
    [trade_date |-> date_int, trade_time |-> seconds_int, ts_event |-> ts]

\* a second row that does not match its source
StrayRow == Row(20240102, 34500, Ns(0, 0))

\* frames of no row, of one row, and of one row followed by the stray row
FramesOfRow(date_int, seconds_int, host) ==
    { <<Row(date_int, seconds_int, c)>> :
        c \in ClaimedFor(date_int, seconds_int, host) }

Frames(host) ==
    {<<>>}
    \cup UNION { FramesOfRow(d, s, host) : d \in DateInts, s \in SecondsInts }
    \cup UNION { { df \o <<StrayRow>> : df \in FramesOfRow(d, s, host) } :
                  d \in {20240102, 20170102}, s \in SecondsInts }

\* the dates handed to the calendar and expiry functions
FirstDate == Date(FirstTableYear - YearsBefore, 1, 1)
LastDate == Date(LastTableYear + YearsAfter, 12, 31)
Dates == FirstDate..LastDate
\* the dates an interval may start on: the last table year and the years after
IntervalStarts == Date(LastTableYear, 1, 1)..LastDate
\* the starts around the end of the holiday tables: the last quarter of the
\* last table year and the first month after it
YearEndStarts == Date(LastTableYear, 10, 1)..Date(LastTableYear + 1, 1, 31)

---------------------------------------------------------------------------
(* contract_generators.py: the lot-size and asset-class tables and the two *)
(* contract constructors.  A dictionary is a sequence of <<key, value>>    *)
(* pairs with distinct keys; an argument left at None is the empty         *)
(* sequence and a passed value v is <<v>>.                                 *)

\* str.upper() of one character
ToUpper(c) ==
    IF \E i \in 1..26 : LowerChars[i] = c
    THEN UpperChars[CHOOSE i \in 1..26 : LowerChars[i] = c]
    ELSE c

\* str.upper()
UpperStr(str) == [i \in 1..Len(str) |-> ToUpper(str[i])]

\* dict.get(key, default)
DictGet(dict, key, default) ==
    IF \E i \in 1..Len(dict) : dict[i][1] = key
    THEN dict[CHOOSE i \in 1..Len(dict) : dict[i][1] = key][2]
    ELSE default

NSE_LOT_SIZES ==
    << <<<<"N", "I", "F", "T", "Y">>, 25>>,
       <<<<"B", "A", "N", "K", "N", "I", "F", "T", "Y">>, 15>>,
       <<<<"F", "I", "N", "N", "I", "F", "T", "Y">>, 25>>,
       <<<<"M", "I", "D", "C", "P", "N", "I", "F", "T", "Y">>, 50>>,
       <<<<"S", "E", "N", "S", "E", "X">>, 10>>,
       <<<<"B", "A", "N", "K", "E", "X">>, 15>>,
       <<<<"C", "R", "U", "D", "E", "O", "I", "L">>, 100>>,
       <<<<"N", "A", "T", "U", "R", "A", "L", "G", "A", "S">>, 1250>>,
       <<<<"G", "O", "L", "D">>, 100>>,
       <<<<"S", "I", "L", "V", "E", "R">>, 30>>,
       <<<<"C", "O", "P", "P", "E", "R">>, 1000>>,
       <<<<"Z", "I", "N", "C">>, 1000>>,
       <<<<"L", "E", "A", "D">>, 1000>>,
       <<<<"A", "L", "U", "M", "I", "N", "I", "U", "M">>, 1000>>,
       <<<<"N", "I", "C", "K", "E", "L">>, 250>> >>

ASSET_CLASS_MAP ==
    << <<<<"C", "R", "U", "D", "E", "O", "I", "L">>, "COMMODITY">>,
       <<<<"N", "A", "T", "U", "R", "A", "L", "G", "A", "S">>, "COMMODITY">>,
       <<<<"G", "O", "L", "D">>, "COMMODITY">>,
       <<<<"S", "I", "L", "V", "E", "R">>, "COMMODITY">>,
       <<<<"C", "O", "P", "P", "E", "R">>, "COMMODITY">>,
       <<<<"Z", "I", "N", "C">>, "COMMODITY">>,
       <<<<"L", "E", "A", "D">>, "COMMODITY">>,
       <<<<"A", "L", "U", "M", "I", "N", "I", "U", "M">>, "COMMODITY">>,
       <<<<"N", "I", "C", "K", "E", "L">>, "COMMODITY">> >>

\* the underlyings whose options reference the spot index
SpotIndexUnderlyings ==
    { <<"N", "I", "F", "T", "Y">>,
      <<"B", "A", "N", "K", "N", "I", "F", "T", "Y">>,
      <<"F", "I", "N", "N", "I", "F", "T", "Y">>,
      <<"M", "I", "D", "C", "P", "N", "I", "F", "T", "Y">>,
      <<"S", "E", "N", "S", "E", "X">>,
      <<"B", "A", "N", "K", "E", "X">> }

\* MUTANT of LotSizeOf: the underlying is looked up as it is written
LotSizeOfAsWritten(underlying, lot_size) ==
    IF lot_size = <<>> THEN DictGet(NSE_LOT_SIZES, underlying, 1)
    ELSE lot_size[1]

\* the lot size both constructors settle on
LotSizeOf(underlying, lot_size) ==
    IF lot_size = <<>> THEN DictGet(NSE_LOT_SIZES, UpperStr(underlying), 1)
    ELSE lot_size[1]

\* the asset class both constructors settle on
AssetClassOf(underlying) ==
    DictGet(ASSET_CLASS_MAP, UpperStr(underlying), "EQUITY")

\* create_options_contract: the fields of the OptionContract it builds
\* (dates as ordinals of midnight UTC)
CreateOptionsContract(symbol, strike, expiry, option_kind, underlying, lot_size) ==
    LET lot == LotSizeOf(underlying, lot_size)
        asset_class == AssetClassOf(underlying)
        kind == IF UpperStr(option_kind) \in {<<"C", "A", "L", "L">>, <<"C", "E">>}
                THEN "CALL" ELSE "PUT"
        underlying_spot ==
            IF UpperStr(underlying) \in SpotIndexUnderlyings
            THEN underlying \o <<"-", "I", "N", "D", "E", "X">>
            ELSE underlying
    IN  [raw_symbol |-> symbol,
         asset_class |-> asset_class,
         underlying |-> underlying_spot,
         option_kind |-> kind,
         activation |-> expiry - 30,
         expiration |-> expiry,
         strike_price |-> strike,
         multiplier |-> lot,
         lot_size |-> lot]

\* create_futures_contract: the fields of the FuturesContract it builds;
\* expiry_date is a date, or 0 for the string "continuous" (no date has
\* ordinal 0)
CreateFuturesContract(symbol, expiry_date, underlying, lot_size) ==
    LET lot == LotSizeOf(underlying, lot_size)
        asset_class == AssetClassOf(underlying)
        continuous == expiry_date = 0
        expiry == IF continuous THEN Date(2099, 12, 31) ELSE expiry_date
        activation == IF continuous THEN Date(2020, 1, 1) ELSE expiry - 90
    IN  [raw_symbol |-> symbol,
         asset_class |-> asset_class,
         underlying |-> underlying,
         activation |-> activation,
         expiration |-> expiry,
         multiplier |-> 1,
         lot_size |-> lot]

---------------------------------------------------------------------------
(* The arguments handed to the contract constructors.                      *)

\* every key of the lot-size table as written, in lower case and in mixed
\* case
ListedUnderlyings ==
    { <<"N", "I", "F", "T", "Y">>, <<"n", "i", "f", "t", "y">>, <<"N", "i", "F", "t", "Y">>,
      <<"B", "A", "N", "K", "N", "I", "F", "T", "Y">>, <<"b", "a", "n", "k", "n", "i", "f", "t", "y">>, <<"B", "a", "N", "k", "N", "i", "F", "t", "Y">>,
      <<"F", "I", "N", "N", "I", "F", "T", "Y">>, <<"f", "i", "n", "n", "i", "f", "t", "y">>, <<"F", "i", "N", "n", "I", "f", "T", "y">>,
      <<"M", "I", "D", "C", "P", "N", "I", "F", "T", "Y">>, <<"m", "i", "d", "c", "p", "n", "i", "f", "t", "y">>, <<"M", "i", "D", "c", "P", "n", "I", "f", "T", "y">>,
      <<"S", "E", "N", "S", "E", "X">>, <<"s", "e", "n", "s", "e", "x">>, <<"S", "e", "N", "s", "E", "x">>,
      <<"B", "A", "N", "K", "E", "X">>, <<"b", "a", "n", "k", "e", "x">>, <<"B", "a", "N", "k", "E", "x">>,
      <<"C", "R", "U", "D", "E", "O", "I", "L">>, <<"c", "r", "u", "d", "e", "o", "i", "l">>, <<"C", "r", "U", "d", "E", "o", "I", "l">>,
      <<"N", "A", "T", "U", "R", "A", "L", "G", "A", "S">>, <<"n", "a", "t", "u", "r", "a", "l", "g", "a", "s">>, <<"N", "a", "T", "u", "R", "a", "L", "g", "A", "s">>,
      <<"G", "O", "L", "D">>, <<"g", "o", "l", "d">>, <<"G", "o", "L", "d">>,
      <<"S", "I", "L", "V", "E", "R">>, <<"s", "i", "l", "v", "e", "r">>, <<"S", "i", "L", "v", "E", "r">>,
      <<"C", "O", "P", "P", "E", "R">>, <<"c", "o", "p", "p", "e", "r">>, <<"C", "o", "P", "p", "E", "r">>,
      <<"Z", "I", "N", "C">>, <<"z", "i", "n", "c">>, <<"Z", "i", "N", "c">>,
      <<"L", "E", "A", "D">>, <<"l", "e", "a", "d">>, <<"L", "e", "A", "d">>,
      <<"A", "L", "U", "M", "I", "N", "I", "U", "M">>, <<"a", "l", "u", "m", "i", "n", "i", "u", "m">>, <<"A", "l", "U", "m", "I", "n", "I", "u", "M">>,
      <<"N", "I", "C", "K", "E", "L">>, <<"n", "i", "c", "k", "e", "l">>, <<"N", "i", "C", "k", "E", "l">> }

\* underlyings that are no key of the table in any letter case
UnlistedUnderlyings ==
    { <<"R", "E", "L", "I", "A", "N", "C", "E">>,
      <<"r", "e", "l", "i", "a", "n", "c", "e">>,
      <<>>,
      <<"N", "I", "F", "T">>,
      <<"N", "I", "F", "T", "Y", "5", "0">>,
      <<"G", "O", "L", "D", "M">>,
      <<" ", "N", "I", "F", "T", "Y">>,
      <<"n", "i", "f", "t", "y", "-", "i">> }

ContractUnderlyings == ListedUnderlyings \cup UnlistedUnderlyings

\* lot_size: left at None, or passed
LotSizeArgs == { <<>>, <<1>>, <<40>>, <<75>> }

\* option_kind as callers write it
OptionKindArgs ==
    { <<"C", "A", "L", "L">>, <<"P", "U", "T">>, <<"C", "E">>,
      <<"c", "e">>, <<"P", "E">> }

\* expiry dates of contracts
ContractExpiries == { Date(2024, 1, 25), Date(2024, 3, 28) }

\* expiry_date of a future: 0 for "continuous", or a date
FuturesExpiryArgs == {0} \cup ContractExpiries

---------------------------------------------------------------------------
(* transform_official_nautilus.py: the open-interest records of            *)
(* transform_futures_bars and transform_options_bars.  A file is the       *)
(* sequence of its rows that lie in the date window, in the order they are *)
(* stored; a row carries its timestamp and oi, an option row also its      *)
(* symbol.  Timestamps are counted in periods, option symbols are numbered *)
(* in their sorting order.                                                 *)

\* pd.concat(dfs, ignore_index=True): the rows of the files, one file after
\* the other
RECURSIVE Concat(_)
Concat(dfs) == IF dfs = <<>> THEN <<>> ELSE Head(dfs) \o Concat(Tail(dfs))

\* the loop `for idx, row in ....iterrows()` that builds the OI records
RECURSIVE OiLoop(_, _, _, _, _)
OiLoop(rows, idx, prev_oi, instrument_id, oi_data_list) ==
    IF idx > Len(rows) THEN oi_data_list
    ELSE LET current_oi == rows[idx].oi
             coi == current_oi - prev_oi
         IN  OiLoop(rows, idx + 1, current_oi, instrument_id,
                    Append(oi_data_list,
                           [instrument_id |-> instrument_id,
                            oi |-> current_oi,
                            coi |-> coi,
                            ts_event |-> rows[idx].timestamp,
                            ts_init |-> rows[idx].timestamp]))

\* oi_data_list.sort(key=lambda x: x.ts_init): a stable sort
SortByTsInit(list) ==
    LET Rank(i) ==
            1 + Cardinality({ j \in 1..Len(list) :
                                \/ list[j].ts_init < list[i].ts_init
                                \/ list[j].ts_init = list[i].ts_init /\ j < i })
    IN  [k \in 1..Len(list) |-> list[CHOOSE i \in 1..Len(list) : Rank(i) = k]]

\* transform_futures_bars: the FutureOI records written to the catalog
\* (instrument 0 is the continuous future)
TransformFuturesOi(dfs) ==
    LET combined_df == Concat(dfs)
    IN  SortByTsInit(OiLoop(combined_df, 1, 0, 0, <<>>))

\* the rows of one symbol, in the order of the file
RECURSIVE GroupOf(_, _)
GroupOf(df, option_symbol) ==
    IF df = <<>> THEN <<>>
    ELSE IF Head(df).symbol = option_symbol
         THEN <<Head(df)>> \o GroupOf(Tail(df), option_symbol)
         ELSE GroupOf(Tail(df), option_symbol)

\* the loop `for option_symbol, group in df.groupby('symbol')` of one file,
\* from option_symbol on: the OptionOI records written, group after group
RECURSIVE GroupLoop(_, _, _)
GroupLoop(df, option_symbol, last_symbol) ==
    IF option_symbol > last_symbol THEN <<>>
    ELSE LET group == GroupOf(df, option_symbol)
         IN  (IF group = <<>> THEN <<>>
              ELSE SortByTsInit(OiLoop(group, 1, 0, option_symbol, <<>>)))
             \o GroupLoop(df, option_symbol + 1, last_symbol)

\* the loop `for file in parquet_files` of transform_options_bars: the
\* OptionOI records written to the catalog, file after file
RECURSIVE FileLoop(_, _)
FileLoop(files, last_symbol) ==
    IF files = <<>> THEN <<>>
    ELSE GroupLoop(Head(files), 1, last_symbol)
         \o FileLoop(Tail(files), last_symbol)

---------------------------------------------------------------------------
(* The parquet files handed to the two transforms: up to MaxRows rows in   *)
(* all, of different timestamps, split over one or two files.              *)

MaxRows == 3
OiPeriods == 1..MaxRows
OiValues == {10, 12, 15}
OptionSymbols == 1..2

\* sequences of n different timestamps
RECURSIVE TimestampOrders(_)
TimestampOrders(n) ==
    IF n = 0 THEN {<<>>}
    ELSE { Append(s, t) : s \in TimestampOrders(n - 1), t \in OiPeriods }

DistinctTimestampOrders(n) ==
    { s \in TimestampOrders(n) : \A i, j \in 1..n : i # j => s[i] # s[j] }

\* futures rows in storage order
FutureRows ==
    UNION { { [i \in 1..n |-> [timestamp |-> ts[i], oi |-> oi[i]]] :
                ts \in DistinctTimestampOrders(n), oi \in [1..n -> OiValues] } :
            n \in 1..MaxRows }

\* option rows in storage order; two oi values keep the set small
OptionRows ==
    UNION { { [i \in 1..n |-> [symbol |-> sym[i], timestamp |-> ts[i],
                               oi |-> oi[i]]] :
                ts \in DistinctTimestampOrders(n),
                oi \in [1..n -> {10, 15}],
                sym \in [1..n -> OptionSymbols] } :
            n \in 1..(MaxRows - 1) }

\* the rows cut into a first file and a second one (which may be empty)
SplitInFiles(rows) ==
    { IF k = Len(rows) THEN <<rows>>
      ELSE <<SubSeq(rows, 1, k), SubSeq(rows, k + 1, Len(rows))>> :
      k \in 1..Len(rows) }

---------------------------------------------------------------------------
(* The state machine: one action per function, applied to inputs drawn     *)
(* from the bounded sets.                                                  *)

Init ==
    /\ pc = "idle"
    /\ args = <<>>
    /\ ret = 0
    /\ raised = FALSE
    /\ dte = 0
    /\ tz = 0
    /\ frame = <<>>

CallIsTradingDay ==
    /\ pc = "idle"
    /\ \E dt \in Dates :
            /\ pc' = "is_trading_day"
            /\ args' = <<dt>>
            /\ ret' = IsTradingDay(dt)
            /\ raised' = FALSE
            /\ tz' = tz
            /\ frame' = <<>>
            /\ dte' = 0

CallGetPreviousTradingDay ==
    /\ pc = "idle"
    /\ \E dt \in Dates :
            /\ pc' = "get_previous_trading_day"
            /\ args' = <<dt>>
            /\ ret' = GetPreviousTradingDay(dt)
            /\ raised' = FALSE
            /\ tz' = tz
            /\ frame' = <<>>
            /\ dte' = 0

CallGetNextTradingDay ==
    /\ pc = "idle"
    /\ \E dt \in Dates :
            /\ pc' = "get_next_trading_day"
            /\ args' = <<dt>>
            /\ ret' = GetNextTradingDay(dt)
            /\ raised' = FALSE
            /\ tz' = tz
            /\ frame' = <<>>
            /\ dte' = 0

CallTradingDaysBetween ==
    /\ pc = "idle"
    /\ \E start \in IntervalStarts :
            \E end \in (start - MaxBack)..(start + MaxSpan) :
                /\ pc' = "trading_days_between"
                /\ args' = <<start, end>>
                /\ ret' = TradingDaysBetween(start, end)
                /\ raised' = FALSE
                /\ tz' = tz
                /\ frame' = <<>>
                /\ dte' = 0

CallClassifyExpiryBucket ==
    /\ pc = "idle"
    /\ \E current_date \in IntervalStarts :
            \E option_expiry \in (current_date - MaxBack)..(current_date + MaxSpan) :
                /\ pc' = "classify_expiry_bucket"
                /\ args' = <<option_expiry, current_date>>
                /\ dte' = ClassifyDte(option_expiry, current_date)
                /\ ret' = ClassifyExpiryBucket(option_expiry, current_date)
                /\ raised' = FALSE
                /\ tz' = tz
                /\ frame' = <<>>

\* trading_days_between on the intervals that start around the end of the
\* holiday tables
CallTradingDaysBetweenAtYearEnd ==
    /\ pc = "idle"
    /\ \E start \in YearEndStarts :
            \E end \in (start - MaxBack)..(start + MaxSpan) :
                /\ pc' = "trading_days_between"
                /\ args' = <<start, end>>
                /\ ret' = TradingDaysBetween(start, end)
                /\ raised' = FALSE
                /\ tz' = tz
                /\ frame' = <<>>
                /\ dte' = 0

\* classify_expiry_bucket on the same intervals
CallClassifyExpiryBucketAtYearEnd ==
    /\ pc = "idle"
    /\ \E current_date \in YearEndStarts :
            \E option_expiry \in (current_date - MaxBack)..(current_date + MaxSpan) :
                /\ pc' = "classify_expiry_bucket"
                /\ args' = <<option_expiry, current_date>>
                /\ dte' = ClassifyDte(option_expiry, current_date)
                /\ ret' = ClassifyExpiryBucket(option_expiry, current_date)
                /\ raised' = FALSE
                /\ tz' = tz
                /\ frame' = <<>>

CallGetNseMonthlyExpiry ==
    /\ pc = "idle"
    /\ \E year \in Years, month \in Months :
            /\ pc' = "get_nse_monthly_expiry"
            /\ args' = <<year, month>>
            /\ ret' = GetNseMonthlyExpiry(year, month)
            /\ raised' = FALSE
            /\ tz' = tz
            /\ frame' = <<>>
            /\ dte' = 0

CallGetAllMonthlyExpiries ==
    /\ pc = "idle"
    /\ \E year \in Years :
            /\ pc' = "get_all_monthly_expiries"
            /\ args' = <<year>>
            /\ ret' = GetAllMonthlyExpiries(year)
            /\ raised' = FALSE
            /\ tz' = tz
            /\ frame' = <<>>
            /\ dte' = 0

CallGetNseWeeklyExpiries ==
    /\ pc = "idle"
    /\ \E year \in Years, month \in Months :
            /\ pc' = "get_nse_weekly_expiries"
            /\ args' = <<year, month>>
            /\ ret' = GetNseWeeklyExpiries(year, month)
            /\ raised' = FALSE
            /\ tz' = tz
            /\ frame' = <<>>
            /\ dte' = 0

CallIsExpiryDay ==
    /\ pc = "idle"
    /\ \E dt \in Dates :
            /\ pc' = "is_expiry_day"
            /\ args' = <<dt>>
            /\ ret' = IsExpiryDay(dt)
            /\ raised' = FALSE
            /\ tz' = tz
            /\ frame' = <<>>
            /\ dte' = 0

CallParseNseOptionSymbol ==
    /\ pc = "idle"
    /\ \E symbol \in Symbols :
            LET res == ParseNseOptionSymbol(symbol)
            IN  /\ pc' = "parse_nse_option_symbol"
                /\ args' = <<symbol>>
                /\ ret' = res.value
                /\ raised' = res.raised
                /\ tz' = tz
                /\ frame' = <<>>
                /\ dte' = 0

\* before any call, on a host in one of the local zones
InitTime ==
    /\ pc = "idle"
    /\ args = <<>>
    /\ ret = 0
    /\ raised = FALSE
    /\ dte = 0
    /\ tz \in HostOffsets
    /\ frame = <<>>

CallYyyymmddSecondsToUtcNs ==
    /\ pc = "idle"
    /\ \E date_int \in DateInts, seconds_int \in SecondsInts :
            LET res == YyyymmddSecondsToUtcNs(date_int, seconds_int, tz)
            IN  /\ pc' = "yyyymmdd_seconds_to_utc_ns"
                /\ args' = <<date_int, seconds_int>>
                /\ ret' = res.value
                /\ raised' = res.raised
                /\ tz' = tz
                /\ frame' = <<>>
                /\ dte' = 0

\* yyyymmdd_seconds_to_utc_ns on consecutive days and seconds
CallYyyymmddSecondsToUtcNsInSequence ==
    /\ pc = "idle"
    /\ \E date_int \in ConsecutiveDateInts,
          seconds_int \in ConsecutiveSecondsInts :
            LET res == YyyymmddSecondsToUtcNs(date_int, seconds_int, tz)
            IN  /\ pc' = "yyyymmdd_seconds_to_utc_ns"
                /\ args' = <<date_int, seconds_int>>
                /\ ret' = res.value
                /\ raised' = res.raised
                /\ tz' = tz
                /\ frame' = <<>>
                /\ dte' = 0

CallValidateTimestampConversion ==
    /\ pc = "idle"
    /\ \E df \in Frames(tz) :
            LET res == ValidateTimestampConversion(df, tz)
            IN  /\ pc' = "validate_timestamp_conversion"
                /\ args' = <<df>>
                /\ ret' = res.value
                /\ raised' = res.raised
                /\ tz' = tz
                /\ frame' = <<>>
                /\ dte' = 0

\* the symbol and strike are carried into the contract unchanged; one of
\* each is passed
CallCreateOptionsContract ==
    /\ pc = "idle"
    /\ \E underlying \in ContractUnderlyings, lot_size \in LotSizeArgs,
          option_kind \in OptionKindArgs, expiry \in ContractExpiries :
            /\ pc' = "create_options_contract"
            /\ args' = <<underlying \o <<"O", "P", "T">>, 48000, expiry,
                         option_kind, underlying, lot_size>>
            /\ ret' = CreateOptionsContract(underlying \o <<"O", "P", "T">>,
                                            48000, expiry, option_kind,
                                            underlying, lot_size)
            /\ raised' = FALSE
            /\ tz' = tz
            /\ frame' = <<>>
            /\ dte' = 0

CallCreateFuturesContract ==
    /\ pc = "idle"
    /\ \E underlying \in ContractUnderlyings, lot_size \in LotSizeArgs,
          expiry_date \in FuturesExpiryArgs :
            /\ pc' = "create_futures_contract"
            /\ args' = <<underlying \o <<"-", "I">>, expiry_date, underlying,
                         lot_size>>
            /\ ret' = CreateFuturesContract(underlying \o <<"-", "I">>,
                                            expiry_date, underlying, lot_size)
            /\ raised' = FALSE
            /\ tz' = tz
            /\ frame' = <<>>
            /\ dte' = 0

CallTransformFuturesBars ==
    /\ pc = "idle"
    /\ \E rows \in FutureRows :
        \E dfs \in SplitInFiles(rows) :
            /\ pc' = "transform_futures_bars"
            /\ args' = <<dfs>>
            /\ ret' = TransformFuturesOi(dfs)
            /\ raised' = FALSE
            /\ tz' = tz
            /\ frame' = <<>>
            /\ dte' = 0

CallTransformOptionsBars ==
    /\ pc = "idle"
    /\ \E rows \in OptionRows :
        \E files \in SplitInFiles(rows) :
            /\ pc' = "transform_options_bars"
            /\ args' = <<files>>
            /\ ret' = FileLoop(files, 2)
            /\ raised' = FALSE
            /\ tz' = tz
            /\ frame' = <<>>
            /\ dte' = 0

---------------------------------------------------------------------------
(* The day-walking loops taken one iteration at a time.  frame holds the   *)
(* locals of the call and the one-day steps its walk has taken; a walk is  *)
(* cut off after MaxWalk steps.  At the label ":return" the call is at its *)
(* return statement, about to return the local that the statement names.   *)

EnterGetPreviousTradingDay ==
    /\ pc = "idle"
    /\ \E dt \in Dates :
            /\ pc' = "get_previous_trading_day:while"
            /\ args' = <<dt>>
            /\ frame' = [current |-> dt - 1, steps |-> 0]
    /\ UNCHANGED <<ret, raised, dte, tz>>

StepGetPreviousTradingDay ==
    /\ pc = "get_previous_trading_day:while"
    /\ ~IsTradingDay(frame.current)
    /\ frame.steps < MaxWalk
    /\ frame' = [current |-> frame.current - 1, steps |-> frame.steps + 1]
    /\ UNCHANGED <<pc, args, ret, raised, dte, tz>>

ReturnGetPreviousTradingDay ==
    /\ pc = "get_previous_trading_day:while"
    /\ IsTradingDay(frame.current)
    /\ pc' = "get_previous_trading_day:return"
    /\ UNCHANGED <<args, ret, raised, dte, tz, frame>>

EnterGetNextTradingDay ==
    /\ pc = "idle"
    /\ \E dt \in Dates :
            /\ pc' = "get_next_trading_day:while"
            /\ args' = <<dt>>
            /\ frame' = [current |-> dt + 1, steps |-> 0]
    /\ UNCHANGED <<ret, raised, dte, tz>>

StepGetNextTradingDay ==
    /\ pc = "get_next_trading_day:while"
    /\ ~IsTradingDay(frame.current)
    /\ frame.steps < MaxWalk
    /\ frame' = [current |-> frame.current + 1, steps |-> frame.steps + 1]
    /\ UNCHANGED <<pc, args, ret, raised, dte, tz>>

ReturnGetNextTradingDay ==
    /\ pc = "get_next_trading_day:while"
    /\ IsTradingDay(frame.current)
    /\ pc' = "get_next_trading_day:return"
    /\ UNCHANGED <<args, ret, raised, dte, tz, frame>>

EnterGetNseMonthlyExpiry ==
    /\ pc = "idle"
    /\ \E year \in Years, month \in Months :
            /\ pc' = "get_nse_monthly_expiry:while"
            /\ args' = <<year, month>>
            /\ frame' = [last_thursday |-> LastThursday(year, month),
                         steps |-> 0]
    /\ UNCHANGED <<ret, raised, dte, tz>>

StepGetNseMonthlyExpiry ==
    /\ pc = "get_nse_monthly_expiry:while"
    /\ ~IsTradingDay(frame.last_thursday)
    /\ frame.steps < MaxWalk
    /\ frame' = [last_thursday |-> frame.last_thursday - 1,
                 steps |-> frame.steps + 1]
    /\ UNCHANGED <<pc, args, ret, raised, dte, tz>>

ReturnGetNseMonthlyExpiry ==
    /\ pc = "get_nse_monthly_expiry:while"
    /\ IsTradingDay(frame.last_thursday)
    /\ pc' = "get_nse_monthly_expiry:return"
    /\ UNCHANGED <<args, ret, raised, dte, tz, frame>>

EnterGetNseWeeklyExpiries ==
    /\ pc = "idle"
    /\ \E year \in Years, month \in Months :
            /\ pc' = "get_nse_weekly_expiries:while"
            /\ args' = <<year, month>>
            /\ frame' = [current |-> Date(year, month, 1),
                         last_day |-> Date(year, month, MonthRange(year, month)),
                         expiry |-> 0,
                         expiries |-> <<>>,
                         steps |-> 0]
    /\ UNCHANGED <<ret, raised, dte, tz>>

\* one pass of the day loop: a Thursday starts a walk-back, any other day
\* is passed over
DayGetNseWeeklyExpiries ==
    /\ pc = "get_nse_weekly_expiries:while"
    /\ frame.current <= frame.last_day
    /\ IF Weekday(frame.current) = 3
       THEN /\ pc' = "get_nse_weekly_expiries:walk"
            /\ frame' = [frame EXCEPT !.expiry = frame.current, !.steps = 0]
       ELSE /\ pc' = pc
            /\ frame' = [frame EXCEPT !.current = frame.current + 1]
    /\ UNCHANGED <<args, ret, raised, dte, tz>>

StepGetNseWeeklyExpiries ==
    /\ pc = "get_nse_weekly_expiries:walk"
    /\ ~IsTradingDay(frame.expiry)
    /\ frame.steps < MaxWalk
    /\ frame' = [frame EXCEPT !.expiry = frame.expiry - 1,
                              !.steps = frame.steps + 1]
    /\ UNCHANGED <<pc, args, ret, raised, dte, tz>>

AppendGetNseWeeklyExpiries ==
    /\ pc = "get_nse_weekly_expiries:walk"
    /\ IsTradingDay(frame.expiry)
    /\ pc' = "get_nse_weekly_expiries:while"
    /\ frame' = [frame EXCEPT !.expiries = Append(frame.expiries, frame.expiry),
                              !.current = frame.current + 1]
    /\ UNCHANGED <<args, ret, raised, dte, tz>>

ReturnGetNseWeeklyExpiries ==
    /\ pc = "get_nse_weekly_expiries:while"
    /\ frame.current > frame.last_day
    /\ pc' = "get_nse_weekly_expiries:return"
    /\ UNCHANGED <<args, ret, raised, dte, tz, frame>>

\* the pc values of a call that is inside one of its loops
LoopLabels ==
    { "get_previous_trading_day:while", "get_next_trading_day:while",
      "get_nse_monthly_expiry:while", "get_nse_weekly_expiries:while",
      "get_nse_weekly_expiries:walk" }

\* the call returns to its caller, which may call again
Return ==
    /\ pc \notin LoopLabels \cup {"idle"}
    /\ pc' = "idle"
    /\ args' = <<>>
    /\ ret' = 0
    /\ raised' = FALSE
    /\ tz' = tz
    /\ frame' = <<>>
    /\ dte' = 0

Next ==
    \/ CallIsTradingDay
    \/ CallGetPreviousTradingDay
    \/ CallGetNextTradingDay
    \/ CallTradingDaysBetween
    \/ CallClassifyExpiryBucket
    \/ CallGetNseMonthlyExpiry
    \/ CallGetAllMonthlyExpiries
    \/ Return

Spec == Init /\ [][Next]_vars

\* the weekly expiries alone
NextWeekly ==
    \/ CallGetNseWeeklyExpiries
    \/ Return

SpecWeekly == Init /\ [][NextWeekly]_vars

\* the symbol parser alone
NextParse ==
    \/ CallParseNseOptionSymbol
    \/ Return

SpecParse == Init /\ [][NextParse]_vars

\* the timestamp functions alone, on any of the hosts
NextTime ==
    \/ CallYyyymmddSecondsToUtcNs
    \/ CallValidateTimestampConversion
    \/ Return

SpecTime == InitTime /\ [][NextTime]_vars

\* the contract constructors alone
NextContract ==
    \/ CallCreateOptionsContract
    \/ CallCreateFuturesContract
    \/ Return

SpecContract == Init /\ [][NextContract]_vars

\* an iteration of a loop of a running call
LoopStep ==
    \/ StepGetPreviousTradingDay
    \/ ReturnGetPreviousTradingDay
    \/ StepGetNextTradingDay
    \/ ReturnGetNextTradingDay
    \/ StepGetNseMonthlyExpiry
    \/ ReturnGetNseMonthlyExpiry
    \/ DayGetNseWeeklyExpiries
    \/ StepGetNseWeeklyExpiries
    \/ AppendGetNseWeeklyExpiries
    \/ ReturnGetNseWeeklyExpiries

\* the day-walking functions, one loop iteration at a time
NextWalk ==
    \/ EnterGetPreviousTradingDay
    \/ EnterGetNextTradingDay
    \/ EnterGetNseMonthlyExpiry
    \/ EnterGetNseWeeklyExpiries
    \/ LoopStep
    \/ Return

\* a call, once entered, runs on: the functions are synchronous
SpecWalk == Init /\ [][NextWalk]_vars /\ WF_vars(LoopStep)

\* the open-interest records of the two transforms alone
NextOi ==
    \/ CallTransformFuturesBars
    \/ CallTransformOptionsBars
    \/ Return

SpecOi == Init /\ [][NextOi]_vars

\* the interval functions around the end of the holiday tables
NextInterval ==
    \/ CallTradingDaysBetweenAtYearEnd
    \/ CallClassifyExpiryBucketAtYearEnd
    \/ Return

SpecInterval == Init /\ [][NextInterval]_vars

\* the monthly and the weekly expiries side by side
NextExpiryDay ==
    \/ CallGetNseMonthlyExpiry
    \/ CallGetNseWeeklyExpiries
    \/ CallIsExpiryDay
    \/ Return

SpecExpiryDay == Init /\ [][NextExpiryDay]_vars

\* the conversion of consecutive seconds, on any of the hosts
NextSequence ==
    \/ CallYyyymmddSecondsToUtcNsInSequence
    \/ Return

SpecSequence == InitTime /\ [][NextSequence]_vars

---------------------------------------------------------------------------
(* Vocabulary of the properties, stated without the functions under test.  *)

\* day of the week of a civil date by Zeller's congruence:
\* 0 = Saturday, 1 = Sunday, 2 = Monday, ..., 6 = Friday
ZellerDay(year, month, day) ==
    LET mm == IF month < 3 THEN month + 12 ELSE month
        yy == IF month < 3 THEN year - 1 ELSE year
        k  == yy % 100
        j  == yy \div 100
    IN  (day + ((13 * (mm + 1)) \div 5) + k + (k \div 4) + (j \div 4) + 5 * j) % 7

IsSaturdayOrSunday(dt) ==
    LET ymd == Ord2Ymd(dt)
    IN  ZellerDay(ymd[1], ymd[2], ymd[3]) \in {0, 1}

IsThursday(dt) ==
    LET ymd == Ord2Ymd(dt)
    IN  ZellerDay(ymd[1], ymd[2], ymd[3]) = 5

InSomeHolidayTable(dt) ==
    \/ dt \in HOLIDAYS_2018 \/ dt \in HOLIDAYS_2019 \/ dt \in HOLIDAYS_2020
    \/ dt \in HOLIDAYS_2021 \/ dt \in HOLIDAYS_2022 \/ dt \in HOLIDAYS_2023
    \/ dt \in HOLIDAYS_2024

\* a trading day, by the rule: Monday to Friday and in no holiday table
TradingDay(dt) == ~IsSaturdayOrSunday(dt) /\ ~InSomeHolidayTable(dt)

\* the number of trading days d with from <= d < to
TradingDaysIn(from, to) ==
    Cardinality({d \in from..(to - 1) : TradingDay(d)})

\* the dates of month `month` of year `year`
DatesOfMonth(year, month) ==
    Date(year, month, 1)..Date(year, month, DaysInMonth(year, month))

\* the last Thursday of the month: the Thursday of the month with no later one
IsLastThursdayOf(dt, year, month) ==
    /\ dt \in DatesOfMonth(year, month)
    /\ IsThursday(dt)
    /\ \A d \in DatesOfMonth(year, month) : IsThursday(d) => d <= dt

---------------------------------------------------------------------------
(* C1: get_nse_monthly_expiry(Y, M) returns a trading day that lies inside *)
(* month M of year Y: the holiday walk-back never reaches the previous     *)
(* month.                                                                  *)
C1_MonthlyExpiryTradingDayInMonth ==
    pc = "get_nse_monthly_expiry" =>
        /\ ~raised
        /\ TradingDay(ret)
        /\ YearOf(ret) = args[1]
        /\ MonthOf(ret) = args[2]
        /\ ret \in DatesOfMonth(args[1], args[2])

\* a month whose last Thursday is a holiday: the expiry was walked back
C1_Witness ==
    /\ pc = "get_nse_monthly_expiry"
    /\ \E d \in DatesOfMonth(args[1], args[2]) :
            /\ IsLastThursdayOf(d, args[1], args[2])
            /\ InSomeHolidayTable(d)
            /\ ret < d
    /\ ret \in DatesOfMonth(args[1], args[2])

(* C2: get_nse_monthly_expiry(Y, M) is the latest trading day on or before *)
(* the last Thursday of the month: that Thursday when it is a trading day, *)
(* otherwise an earlier day with no trading day between it and that        *)
(* Thursday.                                                               *)
C2_MonthlyExpiryLatestTradingDay ==
    pc = "get_nse_monthly_expiry" =>
        \E th \in DatesOfMonth(args[1], args[2]) :
            /\ IsLastThursdayOf(th, args[1], args[2])
            /\ ret <= th
            /\ TradingDay(ret)
            /\ \A d \in (ret + 1)..th : ~TradingDay(d)
            /\ (TradingDay(th) => ret = th)
            /\ (~TradingDay(th) => ret < th)

\* January 2023: the last Thursday is Republic Day, the expiry is the 25th
C2_Witness ==
    /\ pc = "get_nse_monthly_expiry"
    /\ args = <<2023, 1>>
    /\ ~TradingDay(Date(2023, 1, 26))
    /\ IsLastThursdayOf(Date(2023, 1, 26), 2023, 1)
    /\ Ord2Ymd(ret) = <<2023, 1, 25>>

(* C3: is_trading_day(D) is true exactly when D is neither a Saturday nor  *)
(* a Sunday and D is in none of the holiday tables of 2018 to 2024.        *)
C3_IsTradingDayRule ==
    pc = "is_trading_day" =>
        /\ ~raised
        /\ ret = (~IsSaturdayOrSunday(args[1]) /\ ~InSomeHolidayTable(args[1]))

\* a weekday that is a holiday: not a trading day on account of the table
C3_Witness ==
    /\ pc = "is_trading_day"
    /\ ~IsSaturdayOrSunday(args[1])
    /\ InSomeHolidayTable(args[1])
    /\ ret = FALSE

C5_StartAfterEndIsError ==
    (pc = "trading_days_between" /\ args[1] > args[2]) => raised

(* C6: for current_date <= option_expiry, classify_expiry_bucket returns   *)
(* the bucket of dte, the number of trading days d with                    *)
(* current_date <= d < option_expiry: CW for dte <= 7, NW for 8..14, CM    *)
(* for 15..30, NM for dte >= 31; exactly one bucket.                       *)
C6_BucketBands ==
    (pc = "classify_expiry_bucket" /\ args[2] <= args[1]) =>
        LET n == TradingDaysIn(args[2], args[1])
        IN  /\ ~raised
            /\ ret \in {"CW", "NW", "CM", "NM"}
            /\ (ret = "CW") = (n <= 7)
            /\ (ret = "NW") = (8 <= n /\ n <= 14)
            /\ (ret = "CM") = (15 <= n /\ n <= 30)
            /\ (ret = "NM") = (n >= 31)

\* a boundary of the bands: 8 trading days to expiry is the next week
C6_Witness ==
    /\ pc = "classify_expiry_bucket"
    /\ args[2] <= args[1]
    /\ TradingDaysIn(args[2], args[1]) = 8
    /\ ret = "NW"

C8_DocstringExample ==
    /\ (pc = "trading_days_between"
            /\ args = <<Date(2024, 1, 15), Date(2024, 1, 25)>>) => ret = 7
    /\ (pc = "classify_expiry_bucket"
            /\ args = <<Date(2024, 1, 25), Date(2024, 1, 15)>>) => ret = "CW"

(* C9: get_nse_monthly_expiry(2024, 1) = 2024-01-25,                       *)
(* get_nse_monthly_expiry(2024, 10) = 2024-10-31, and                      *)
(* get_all_monthly_expiries(2024) maps each month of 1..12 to its monthly  *)
(* expiry, month 12 to 2024-12-26.                                         *)
C9_Expiries2024 ==
    /\ (pc = "get_nse_monthly_expiry" /\ args = <<2024, 1>>) =>
            Ord2Ymd(ret) = <<2024, 1, 25>>
    /\ (pc = "get_nse_monthly_expiry" /\ args = <<2024, 10>>) =>
            Ord2Ymd(ret) = <<2024, 10, 31>>
    /\ (pc = "get_all_monthly_expiries" /\ args = <<2024>>) =>
            /\ DOMAIN ret = 1..12
            /\ Ord2Ymd(ret[1]) = <<2024, 1, 25>>
            /\ Ord2Ymd(ret[10]) = <<2024, 10, 31>>
            /\ Ord2Ymd(ret[12]) = <<2024, 12, 26>>
            /\ \A m \in 1..12 :
                    \E th \in DatesOfMonth(2024, m) :
                        /\ IsLastThursdayOf(th, 2024, m)
                        /\ TradingDay(th)
                        /\ ret[m] = th

\* the whole year 2024 was computed
C9_Witness ==
    /\ pc = "get_all_monthly_expiries"
    /\ args = <<2024>>
    /\ DOMAIN ret = 1..12
    /\ Ord2Ymd(ret[12]) = <<2024, 12, 26>>

(* C10: get_next_trading_day(D) is later than D, is a trading day, and no  *)
(* trading day lies strictly between D and it; get_previous_trading_day(D) *)
(* is earlier than D, is a trading day, and no trading day lies strictly   *)
(* between it and D. D itself is never returned.                           *)
C10_NextAndPreviousTradingDay ==
    /\ pc = "get_next_trading_day" =>
            /\ ~raised
            /\ ret > args[1]
            /\ TradingDay(ret)
            /\ \A d \in (args[1] + 1)..(ret - 1) : ~TradingDay(d)
    /\ pc = "get_previous_trading_day" =>
            /\ ~raised
            /\ ret < args[1]
            /\ TradingDay(ret)
            /\ \A d \in (ret + 1)..(args[1] - 1) : ~TradingDay(d)

\* from a trading Monday back over a weekend and a Friday holiday
C10_Witness ==
    /\ pc = "get_previous_trading_day"
    /\ TradingDay(args[1])
    /\ InSomeHolidayTable(args[1] - 3)
    /\ ret = args[1] - 4

---------------------------------------------------------------------------
\* the Thursdays of a month
ThursdaysOf(year, month) ==
    {d \in DatesOfMonth(year, month) : IsThursday(d)}

\* dt is the latest trading day on or before th
IsLatestTradingDayUpTo(dt, th) ==
    /\ dt <= th
    /\ TradingDay(dt)
    /\ \A d \in (dt + 1)..th : ~TradingDay(d)

(* C11: get_nse_weekly_expiries(Y, M) holds exactly one entry per calendar *)
(* Thursday of the month, in ascending order of the Thursdays, and each    *)
(* entry is the latest trading day on or before its Thursday (the Thursday *)
(* itself when it is a trading day).                                       *)
C11_WeeklyExpiriesPerThursday ==
    pc = "get_nse_weekly_expiries" =>
        LET ths == ThursdaysOf(args[1], args[2])
        IN  /\ ~raised
            /\ Len(ret) = Cardinality(ths)
            /\ \A th \in ths :
                    LET i == Cardinality({t \in ths : t <= th})
                    IN  /\ IsLatestTradingDayUpTo(ret[i], th)
                        /\ (TradingDay(th) => ret[i] = th)

\* August 2024: five Thursdays, the third is Independence Day
C11_Witness ==
    /\ pc = "get_nse_weekly_expiries"
    /\ args = <<2024, 8>>
    /\ Len(ret) = 5
    /\ InSomeHolidayTable(Date(2024, 8, 15))
    /\ Ord2Ymd(ret[3]) = <<2024, 8, 14>>
    /\ Ord2Ymd(ret[5]) = <<2024, 8, 29>>

---------------------------------------------------------------------------
(* The fields of an option symbol of at least 14 characters, by position   *)
(* from the right, and what makes them well-formed.                        *)

KindField(sym) == SubSeq(sym, Len(sym) - 1, Len(sym))
StrikeField(sym) == SubSeq(sym, Len(sym) - 6, Len(sym) - 2)
DateField(sym) == SubSeq(sym, Len(sym) - 13, Len(sym) - 7)
UnderlyingField(sym) == SubSeq(sym, 1, Len(sym) - 14)

\* digits, with at most one decimal point among them
IsDecimalNumeral(f) ==
    /\ \A i \in 1..Len(f) : IsDigit(f[i]) \/ f[i] = "."
    /\ \E i \in 1..Len(f) : IsDigit(f[i])
    /\ Cardinality({i \in 1..Len(f) : f[i] = "."}) <= 1

TwoDigits(f, i) == 10 * DigitValue(f[i]) + DigitValue(f[i + 1])

\* the number of the month named by the three letters at f[3..5], 0 if none
MonthNumber(f) ==
    LET mmm == LowerStr(SubSeq(f, 3, 5))
    IN  IF \E k \in 1..12 : MonthAbbrs[k] = mmm
        THEN CHOOSE k \in 1..12 : MonthAbbrs[k] = mmm
        ELSE 0

\* two digits, a month abbreviation, two digits, naming a day of year 20YY
IsDDMMMYY(f) ==
    /\ Len(f) = 7
    /\ IsDigit(f[1]) /\ IsDigit(f[2]) /\ IsDigit(f[6]) /\ IsDigit(f[7])
    /\ MonthNumber(f) # 0
    /\ TwoDigits(f, 1) >= 1
    /\ TwoDigits(f, 1) <= DaysInMonth(2000 + TwoDigits(f, 6), MonthNumber(f))

(* C12: parse_nse_option_symbol decodes by fixed positions from the right  *)
(* (2-character kind, 5-character strike, 7-character DDMMMYY date with    *)
(* the 2-digit year mapped to 20YY, the rest the underlying):              *)
(* "BANKNIFTY28OCT2548000CE" gives BANKNIFTY, 2025-10-28, 48000, CALL and  *)
(* "NIFTY01FEB2419500CE" gives NIFTY, 2024-02-01, 19500, CALL.             *)
C12_FixedPositionDecode ==
    pc = "parse_nse_option_symbol" =>
        /\ (~raised /\ Len(args[1]) >= 14) =>
                /\ ret.underlying = UnderlyingField(args[1])
                /\ YearOf(ret.expiry) = 2000 + TwoDigits(DateField(args[1]), 6)
                /\ MonthOf(ret.expiry) = MonthNumber(DateField(args[1]))
                /\ (KindField(args[1]) = <<"C", "E">> => ret.option_type = "CALL")
        /\ args[1] = <<"B", "A", "N", "K", "N", "I", "F", "T", "Y", "2", "8", "O", "C", "T", "2", "5", "4", "8", "0", "0", "0", "C", "E">> =>
                /\ ~raised
                /\ ret.underlying = <<"B", "A", "N", "K", "N", "I", "F", "T", "Y">>
                /\ Ord2Ymd(ret.expiry) = <<2025, 10, 28>>
                /\ ret.strike = [kind |-> "num", neg |-> FALSE,
                                 mant |-> 48, exp |-> 3]
                /\ ret.option_type = "CALL"
        /\ args[1] = <<"N", "I", "F", "T", "Y", "0", "1", "F", "E", "B", "2", "4", "1", "9", "5", "0", "0", "C", "E">> =>
                /\ ~raised
                /\ ret.underlying = <<"N", "I", "F", "T", "Y">>
                /\ Ord2Ymd(ret.expiry) = <<2024, 2, 1>>
                /\ ret.strike = [kind |-> "num", neg |-> FALSE,
                                 mant |-> 195, exp |-> 2]
                /\ ret.option_type = "CALL"

(* C13: parse_nse_option_symbol reports a failure for every symbol whose   *)
(* last two characters are neither "CE" nor "PE"; it never defaults such a *)
(* symbol to CALL or PUT.                                                  *)
C13_UnknownKindFails ==
    (/\ pc = "parse_nse_option_symbol"
     /\ SliceFrom(args[1], -2) \notin {<<"C", "E">>, <<"P", "E">>}) => raised

(* C14: parse_nse_option_symbol reports a failure whenever the underlying  *)
(* part is empty (a symbol of 14 characters or fewer); it never returns    *)
(* components with an empty underlying.                                    *)
C14_EmptyUnderlyingFails ==
    pc = "parse_nse_option_symbol" =>
        /\ Len(args[1]) <= 14 => raised
        /\ ~raised => ret.underlying # <<>>

(* C15: parse_nse_option_symbol reports a failure whenever the 5-character *)
(* strike field is not a decimal numeral or the 7-character date field is  *)
(* not a valid DDMMMYY date; every symbol shorter than 14 characters is    *)
(* such a symbol.                                                          *)
C15_BadStrikeOrDateFails ==
    pc = "parse_nse_option_symbol" =>
        /\ Len(args[1]) < 14 => raised
        /\ (/\ Len(args[1]) >= 14
            /\ \/ ~IsDecimalNumeral(StrikeField(args[1]))
               \/ ~IsDDMMMYY(DateField(args[1]))) => raised

---------------------------------------------------------------------------
(* Civil time for the timestamp properties, counted without the date       *)
(* arithmetic of the functions under test.                                 *)

\* days from 1970-01-01 to the civil date year-month-day
DaysFromCivil(year, month, day) ==
    LET y == IF month <= 2 THEN year - 1 ELSE year
        era == y \div 400
        yoe == y - era * 400
        mp == IF month > 2 THEN month - 3 ELSE month + 9
        doy == (153 * mp + 2) \div 5 + day - 1
        doe == yoe * 365 + yoe \div 4 - yoe \div 100 + doy
    IN  era * 146097 + doe - 719468

\* dateInt = YYYY*10000 + MM*100 + DD names a day of the calendar
CalendarValid(dateInt) ==
    LET year == dateInt \div 10000
        month == (dateInt \div 100) % 100
        day == dateInt % 100
        nextFirst == IF month = 12 THEN DaysFromCivil(year + 1, 1, 1)
                     ELSE DaysFromCivil(year, month + 1, 1)
    IN  /\ year >= 1
        /\ month \in 1..12
        /\ day >= 1
        /\ DaysFromCivil(year, month, day) < nextFirst

\* seconds from 1970-01-01T00:00:00 to the civil date-time read as UTC
CivilSecondsUtc(dateInt, secondsInt) ==
    DaysFromCivil(dateInt \div 10000, (dateInt \div 100) % 100, dateInt % 100)
        * 86400 + secondsInt

\* the count of nanoseconds lies in [1514764800000000000, 1767225600000000000]
WithinSaneBound(ts) ==
    /\ ts.sec >= 1514764800
    /\ ts.sec < 1767225600 \/ (ts.sec = 1767225600 /\ ts.nano = 0)

\* the first row of the frame handed to validate_timestamp_conversion
Sample == args[1][1]

\* the state is a call of validate_timestamp_conversion on a frame whose
\* first row is a valid date and time with the value this host converts
\* them to
RoundTripCall ==
    /\ pc = "validate_timestamp_conversion"
    /\ args[1] # <<>>
    /\ CalendarValid(Sample.trade_date)
    /\ Sample.trade_time \in 0..86399
    /\ Sample.ts_event =
          YyyymmddSecondsToUtcNs(Sample.trade_date, Sample.trade_time, tz).value

C17_CivilSecondsMinusOffset ==
    (/\ pc = "yyyymmdd_seconds_to_utc_ns"
     /\ CalendarValid(args[1])
     /\ args[2] \in 0..86399) =>
        /\ ~raised
        /\ ret.nano = 0
        /\ ret.sec = CivilSecondsUtc(args[1], args[2]) - 19800

(* C18: toUtcNanos is a pure function of its two arguments: an evaluation  *)
(* with the same (dateInt, secondsInt) on a host of any other local zone   *)
(* returns the same value.                                                 *)
C18_SameValueOnEveryHost ==
    (pc = "yyyymmdd_seconds_to_utc_ns" /\ ~raised) =>
        \A host \in HostOffsets :
            YyyymmddSecondsToUtcNs(args[1], args[2], host).value = ret

(* C19 as stated: for any calendar-valid date, of any year, and any        *)
(* seconds in [0, 86399], validateRoundTrip(dateInt, secondsInt,           *)
(* toUtcNanos(dateInt, secondsInt)) returns true.                          *)
C19_RoundTripAnyYear ==
    RoundTripCall => (~raised /\ ret = TRUE)

(* C19 amended: for a calendar-valid date and seconds in [0, 86399],       *)
(* validateRoundTrip(dateInt, secondsInt, toUtcNanos(dateInt, secondsInt)) *)
(* returns true when the value lies in [1514764800000000000,               *)
(* 1767225600000000000], both ends included, and reports a failure when it *)
(* lies outside.                                                           *)
C19_RoundTripWithinBound ==
    RoundTripCall =>
        IF WithinSaneBound(Sample.ts_event)
        THEN ~raised /\ ret = TRUE
        ELSE raised /\ ret = "AssertionError"

\* the round trip of the very last instant of the bound passes
C19_Witness ==
    /\ RoundTripCall
    /\ Sample.ts_event = Ns(1767225600, 0)
    /\ ~raised
    /\ ret = TRUE

(* C20: validateRoundTrip never returns true when the claimed value of the *)
(* checked sample differs from toUtcNanos(sampleDate, sampleSeconds) or    *)
(* lies outside [1514764800000000000, 1767225600000000000]; it reports a   *)
(* failure (AssertionError) instead.                                       *)
C20_MismatchOrOutOfBoundFails ==
    (pc = "validate_timestamp_conversion" /\ args[1] # <<>>) =>
        LET expected == YyyymmddSecondsToUtcNs(Sample.trade_date,
                                               Sample.trade_time, tz)
        IN  /\ expected.raised => raised
            /\ (/\ ~expected.raised
                /\ \/ Sample.ts_event # expected.value
                   \/ ~WithinSaneBound(Sample.ts_event))
               => (raised /\ ret = "AssertionError")

\* a sample of 2017 that matches its conversion is turned down for its
\* magnitude alone
C20_Witness ==
    /\ RoundTripCall
    /\ Sample.trade_date = 20170102
    /\ ~WithinSaneBound(Sample.ts_event)
    /\ raised
    /\ ret = "AssertionError"

---------------------------------------------------------------------------
(* The lot-size lookup as the properties see it.                           *)

\* the two strings are the same but for the case of their letters
SameButCase(a, b) ==
    /\ Len(a) = Len(b)
    /\ \A i \in 1..Len(a) : ToLower(a[i]) = ToLower(b[i])

\* the entries of the lot-size table whose key is the underlying in some
\* letter case
LotEntriesFor(underlying) ==
    { i \in 1..Len(NSE_LOT_SIZES) : SameButCase(NSE_LOT_SIZES[i][1], underlying) }

\* the underlying and the lot_size argument of the contract being built
ContractUnderlying == IF pc = "create_options_contract" THEN args[5] ELSE args[3]
ContractLotArg == IF pc = "create_options_contract" THEN args[6] ELSE args[4]

(* C21: with no lot size passed, both constructors give a listed           *)
(* underlying, in any letter case, the lot size of the table, and give     *)
(* every unlisted underlying lot size 1 and asset class Equity; every key  *)
(* tagged Commodity has a lot-size entry; a passed lot size is used        *)
(* unchanged.                                                              *)
C21_LotSizeLookup ==
    /\ \A i \in 1..Len(ASSET_CLASS_MAP) :
           \E j \in 1..Len(NSE_LOT_SIZES) :
               NSE_LOT_SIZES[j][1] = ASSET_CLASS_MAP[i][1]
    /\ pc \in {"create_options_contract", "create_futures_contract"} =>
        /\ ContractLotArg # <<>> => ret.lot_size = ContractLotArg[1]
        /\ (ContractLotArg = <<>> /\ LotEntriesFor(ContractUnderlying) # {}) =>
               \A i \in LotEntriesFor(ContractUnderlying) :
                   ret.lot_size = NSE_LOT_SIZES[i][2]
        /\ LotEntriesFor(ContractUnderlying) = {} =>
               /\ ret.asset_class = "EQUITY"
               /\ ContractLotArg = <<>> => ret.lot_size = 1

\* an option on "banknifty", written in lower case, gets the lot of BANKNIFTY
C21_Witness ==
    /\ pc = "create_options_contract"
    /\ args[5] = <<"b", "a", "n", "k", "n", "i", "f", "t", "y">>
    /\ args[6] = <<>>
    /\ ret.lot_size = 15
    /\ ret.asset_class = "EQUITY"

---------------------------------------------------------------------------
\* the date lies in a year that has no holiday table
OutsideTableYears(dt) ==
    LET year == Ord2Ymd(dt)[1]
    IN  year < 2018 \/ year > 2024

(* C22: for every date of a year before 2018 or after 2024,                *)
(* is_trading_day is true exactly on Monday to Friday, and                 *)
(* get_previous_trading_day, get_next_trading_day and the monthly expiry   *)
(* follow the weekend rule alone: the nearest weekday before, the nearest  *)
(* weekday after, and the last Thursday of the month unadjusted; none of   *)
(* these calls raises.                                                     *)
C22_WeekendRuleOutsideTables ==
    /\ (pc = "is_trading_day" /\ OutsideTableYears(args[1])) =>
            /\ ~raised
            /\ ret = ~IsSaturdayOrSunday(args[1])
    /\ (pc = "get_previous_trading_day" /\ OutsideTableYears(args[1])) =>
            /\ ~raised
            /\ ret < args[1]
            /\ ~IsSaturdayOrSunday(ret)
            /\ \A d \in (ret + 1)..(args[1] - 1) : IsSaturdayOrSunday(d)
    /\ (pc = "get_next_trading_day" /\ OutsideTableYears(args[1])) =>
            /\ ~raised
            /\ ret > args[1]
            /\ ~IsSaturdayOrSunday(ret)
            /\ \A d \in (args[1] + 1)..(ret - 1) : IsSaturdayOrSunday(d)
    /\ (pc = "get_nse_monthly_expiry" /\ (args[1] < 2018 \/ args[1] > 2024)) =>
            /\ ~raised
            /\ IsLastThursdayOf(ret, args[1], args[2])

\* the monthly expiry of December 2025 is Thursday the 25th, Christmas Day
C22_Witness ==
    /\ pc = "get_nse_monthly_expiry"
    /\ args = <<2025, 12>>
    /\ ret = Date(2025, 12, 25)
    /\ IsThursday(ret)

---------------------------------------------------------------------------
\* a call is inside one of its day-walking loops
Walking == pc \in LoopLabels

(* C23: every day-walking operation terminates: the loops of               *)
(* get_previous_trading_day, get_next_trading_day, get_nse_monthly_expiry  *)
(* and get_nse_weekly_expiries are left after a bounded number of one-day  *)
(* steps (fewer than MaxWalk in a walk over non-trading days), whatever    *)
(* the date.                                                               *)
C23_WalksTerminate ==
    /\ [](Walking => frame.steps < MaxWalk)
    /\ Walking ~> ~Walking

\* the longest walk: from Tuesday 2018-04-03 back over four non-trading days
C23_Witness ==
    /\ pc = "get_previous_trading_day:return"
    /\ args = <<Date(2018, 4, 3)>>
    /\ frame.steps = 4
    /\ frame.current = Date(2018, 3, 29)

---------------------------------------------------------------------------
\* the records written for the instrument of record r with an earlier
\* timestamp than r
EarlierRecords(records, r) ==
    { q \in 1..Len(records) :
        /\ records[q].instrument_id = records[r].instrument_id
        /\ records[q].ts_event < records[r].ts_event }

\* the record of the chronologically previous period
PreviousRecord(records, r) ==
    CHOOSE q \in EarlierRecords(records, r) :
        \A p \in EarlierRecords(records, r) :
            records[p].ts_event <= records[q].ts_event

(* C24: among the OI records written for one instrument (FutureOI by       *)
(* transform_futures_bars, OptionOI per option symbol by                   *)
(* transform_options_bars), each record's coi is its oi minus the oi of    *)
(* the record of the chronologically previous period, and the first        *)
(* record's coi is its own oi, whatever order the rows and files are read  *)
(* in.                                                                     *)
C24_CoiFromPreviousPeriod ==
    pc \in {"transform_futures_bars", "transform_options_bars"} =>
        \A r \in 1..Len(ret) :
            IF EarlierRecords(ret, r) = {}
            THEN ret[r].coi = ret[r].oi
            ELSE ret[r].coi = ret[r].oi - ret[PreviousRecord(ret, r)].oi

---------------------------------------------------------------------------
\* the buckets in their order from the nearest to the farthest
BucketRank(bucket) ==
    CASE bucket = "CW" -> 1
      [] bucket = "NW" -> 2
      [] bucket = "CM" -> 3
      [] bucket = "NM" -> 4

(* C25: trading_days_between is additive over adjacent intervals: for      *)
(* a <= b <= c, the count of (a, c) is the count of (a, b) plus the count  *)
(* of (b, c); hence the count never exceeds the number of calendar days    *)
(* from start to end, and for a fixed current_date the bucket of           *)
(* classify_expiry_bucket never moves to a nearer one (order CW, NW, CM,   *)
(* NM) when the expiry moves later.                                        *)
C25_AdditiveAndMonotone ==
    /\ (pc = "trading_days_between" /\ args[1] <= args[2]) =>
            /\ \A b \in args[1]..args[2] :
                    ret = TradingDaysBetween(args[1], b)
                            + TradingDaysBetween(b, args[2])
            /\ ret <= args[2] - args[1]
    /\ pc = "classify_expiry_bucket" =>
            \A later \in args[1]..(args[2] + MaxSpan) :
                BucketRank(ret)
                    <= BucketRank(ClassifyExpiryBucket(later, args[2]))

\* an interval over a holiday and a weekend that splits into two parts
\* with trading days in each: 2024-10-31 .. 2024-11-06 at 2024-11-04
C25_Witness ==
    /\ pc = "trading_days_between"
    /\ args = <<Date(2024, 10, 31), Date(2024, 11, 6)>>
    /\ ret = 3
    /\ Date(2024, 11, 1) \in HOLIDAYS
    /\ TradingDaysBetween(Date(2024, 10, 31), Date(2024, 11, 4)) = 1
    /\ TradingDaysBetween(Date(2024, 11, 4), Date(2024, 11, 6)) = 2

---------------------------------------------------------------------------
\* the dates of a list of expiries
ExpirySet(expiries) == { expiries[i] : i \in 1..Len(expiries) }

(* C26: for every year and month the last element of                       *)
(* get_nse_weekly_expiries is get_nse_monthly_expiry of that month, so     *)
(* the monthly expiry is always one of the weekly expiries, and            *)
(* is_expiry_day(dt) is true only for a date among the weekly expiries of  *)
(* dt's year and month.                                                    *)
C26_LastWeeklyIsMonthly ==
    /\ pc = "get_nse_weekly_expiries" =>
            /\ Len(ret) > 0
            /\ ret[Len(ret)] = GetNseMonthlyExpiry(args[1], args[2])
    /\ pc = "get_nse_monthly_expiry" =>
            ret \in ExpirySet(GetNseWeeklyExpiries(args[1], args[2]))
    /\ (pc = "is_expiry_day" /\ ret = TRUE) =>
            args[1] \in ExpirySet(GetNseWeeklyExpiries(Ord2Ymd(args[1])[1],
                                                       Ord2Ymd(args[1])[2]))

\* the last Thursday of January 2023 is Republic Day: the Wednesday before
\* it is the monthly expiry and the last weekly one
C26_Witness ==
    /\ pc = "is_expiry_day"
    /\ args = <<Date(2023, 1, 25)>>
    /\ ret = TRUE
    /\ ~IsThursday(args[1])
    /\ GetNseWeeklyExpiries(2023, 1)[4] = Date(2023, 1, 25)

---------------------------------------------------------------------------
(* C27: with the holiday tables of 2018-2024, every date returned by       *)
(* get_nse_weekly_expiries(year, month) is a trading day inside that month *)
(* of that year, and the dates are strictly increasing, so without         *)
(* duplicates: no two Thursdays are walked back to the same day and a      *)
(* holiday on the first Thursday never yields a date of the previous       *)
(* month.                                                                  *)
C27_WeeklyExpiriesInsideMonth ==
    pc = "get_nse_weekly_expiries" =>
        /\ ~raised
        /\ \A i \in 1..Len(ret) :
                /\ TradingDay(ret[i])
                /\ ret[i] \in DatesOfMonth(args[1], args[2])
        /\ \A i \in 1..(Len(ret) - 1) : ret[i] < ret[i + 1]

\* the first Thursday of November 2021 is a holiday (Diwali): its expiry
\* is the Wednesday before it, still in November
C27_Witness ==
    /\ pc = "get_nse_weekly_expiries"
    /\ args = <<2021, 11>>
    /\ InSomeHolidayTable(Date(2021, 11, 4))
    /\ ret[1] = Date(2021, 11, 3)
    /\ ret[2] = Date(2021, 11, 11)
    /\ Len(ret) = 4

---------------------------------------------------------------------------
(* C28: classify_expiry_bucket returns "CW" whenever option_expiry is on   *)
(* or before current_date (an expired or same-day contract): the           *)
(* trading-day count is 0 in that case, and no error or other result is    *)
(* produced.                                                               *)
C28_ExpiredIsCurrentWeek ==
    (pc = "classify_expiry_bucket" /\ args[1] <= args[2]) =>
        /\ ~raised
        /\ dte = 0
        /\ ret = "CW"

\* a contract that expired three days ago, two of them trading days
C28_Witness ==
    /\ pc = "classify_expiry_bucket"
    /\ args[1] = args[2] - 3
    /\ TradingDaysIn(args[1], args[2]) = 2
    /\ TradingDay(args[2])
    /\ dte = 0
    /\ ret = "CW"

---------------------------------------------------------------------------
\* the dateInt of the calendar day after dateInt, among the inputs
DayAfter(dateInt) ==
    { next \in ConsecutiveDateInts :
        /\ CalendarValid(next)
        /\ CivilSecondsUtc(next, 0) = CivilSecondsUtc(dateInt, 0) + 86400 }

(* C29: toUtcNanos is strictly increasing in chronological order of its    *)
(* valid inputs: toUtcNanos(d, s + 1) - toUtcNanos(d, s) = 1,000,000,000   *)
(* for every valid date d and 0 <= s < 86399, and                          *)
(* toUtcNanos(d', 0) - toUtcNanos(d, 86399) = 1,000,000,000 when d' is the *)
(* calendar day after d, also over month and year ends and 29 February.    *)
C29_OneSecondApart ==
    (/\ pc = "yyyymmdd_seconds_to_utc_ns"
     /\ CalendarValid(args[1])
     /\ args[2] \in 0..86399) =>
        /\ ~raised
        /\ args[2] < 86399 =>
                LET next == YyyymmddSecondsToUtcNs(args[1], args[2] + 1, tz)
                IN  /\ ~next.raised
                    /\ next.value.nano = ret.nano
                    /\ next.value.sec - ret.sec = 1
        /\ args[2] = 86399 =>
                \A d \in DayAfter(args[1]) :
                    LET next == YyyymmddSecondsToUtcNs(d, 0, tz)
                    IN  /\ ~next.raised
                        /\ next.value.nano = ret.nano
                        /\ next.value.sec - ret.sec = 1

(* C30: toUtcNanos fails with an error, and returns no value, for every    *)
(* secondsInt outside [0, 86399] (negative, or 86400 and above) and for    *)
(* every dateInt whose month or day is not of a real calendar date (month  *)
(* 13, day 0, 30 February); such an input is never wrapped onto a          *)
(* neighbouring day.                                                       *)
C30_InvalidInputFails ==
    (/\ pc = "yyyymmdd_seconds_to_utc_ns"
     /\ (args[2] \notin 0..86399 \/ ~CalendarValid(args[1]))) =>
        /\ raised
        /\ ret = "ValueError"

\* 29 February of a year that is not a leap year, at market open
C30_Witness ==
    /\ pc = "yyyymmdd_seconds_to_utc_ns"
    /\ args = <<20250229, 33300>>
    /\ ~CalendarValid(args[1])
    /\ raised
    /\ ret = "ValueError"

=============================================================================
